---- MODULE Spec2Model ----
(***************************************************************************)
(* A model of the quality-aware recipe linear-program builder of           *)
(* scripts/linear_solver.py: the quality kernel, the LinearSolver          *)
(* constructor (table selection and catalog normalisation) and the steps   *)
(* of LinearSolver.run() that build the LP.                                *)
(*                                                                         *)
(* Numbers.  The program computes in Python floats.  The model computes in *)
(* exact decimal arithmetic: a number is a record [m |-> mantissa,         *)
(* x |-> exponent] standing for m * 10^(-x).  Every literal of the source  *)
(* (0.1, .062, 1.5, ...) is a finite decimal and is represented exactly;   *)
(* sums, differences and products of decimals are exact.  The one          *)
(* irrational quantity, num_beacons ** (-0.5), is rounded down to three    *)
(* decimals.  Binary floating-point rounding is not modelled.              *)
(***************************************************************************)
EXTENDS Integers, Sequences, FiniteSets, TLC

VARIABLES
    \* ---- kernel harness: calls of calculate_quality_probability_factor
    ks,         \* starting_quality of the calls
    kM,         \* max_quality_unlocked of the calls
    kq,         \* quality_percent of the calls (a decimal)
    kcalls,     \* sequence of <<ending_quality, outcome>> of the calls made so far
    \* ---- one LinearSolver object, from construction to the end of run()
    config,     \* the configuration record given to LinearSolver(config)
    data,       \* the catalog loaded from config['data']
    pc,         \* where the program is: "new", the steps of run(), "done", "error"
    err,        \* the exception that ended the program, if any
    self,       \* the attributes set by __init__ (and extended by setup_resource / setup_mining_drill)
    lp,         \* the LP under construction: solver_items, solver_recipes, ..., constraints
    \* ---- matrix harness: the recipe matrices of main.py and one_step_matrix_solver.py
    mconf,      \* the solver parameters and the frac_quality argument
    mX          \* the matrices returned so far by initialize_recipe_matrix

kvars == <<ks, kM, kq, kcalls>>

svars == <<config, data, pc, err, self, lp>>

mvars == <<mconf, mX>>

vars == <<kvars, svars, mvars>>

-----------------------------------------------------------------------------
(* Exact decimals.                                                         *)

RECURSIVE Pow10(_)
Pow10(k) == IF k <= 0 THEN 1 ELSE 10 * Pow10(k - 1)

Dec(m, x) == [m |-> m, x |-> x]

\* canonical form: no trailing zero in the mantissa unless the exponent is 0
RECURSIVE DecNorm(_)
DecNorm(a) ==
    IF a.m = 0 THEN Dec(0, 0)
    ELSE IF a.x > 0 /\ a.m % 10 = 0 THEN DecNorm(Dec(a.m \div 10, a.x - 1))
    ELSE a

DecInt(n) == Dec(n, 0)

DecMax(i, j) == IF i >= j THEN i ELSE j

DecAdd(a, b) ==
    LET x == DecMax(a.x, b.x)
    IN  DecNorm(Dec(a.m * Pow10(x - a.x) + b.m * Pow10(x - b.x), x))

DecNeg(a) == Dec(-a.m, a.x)

DecSub(a, b) == DecAdd(a, DecNeg(b))

DecMul(a, b) == DecNorm(Dec(a.m * b.m, a.x + b.x))

\* a ** k for an integer k >= 0
RECURSIVE DecPow(_, _)
DecPow(a, k) == IF k <= 0 THEN DecInt(1) ELSE DecMul(a, DecPow(a, k - 1))

DecSign(a) == IF a.m > 0 THEN 1 ELSE IF a.m < 0 THEN -1 ELSE 0

DecLess(a, b) == DecSign(DecSub(a, b)) < 0

DecLeq(a, b) == DecSign(DecSub(a, b)) <= 0

-----------------------------------------------------------------------------
(* Module-level constants of linear_solver.py.                             *)

JUMP_QUALITY_PROBABILITY == Dec(1, 1)

QUALITY_NAMES == <<"normal", "uncommon", "rare", "epic", "legendary">>

-----------------------------------------------------------------------------
(* Outcomes of a call: a returned value or a raised exception.             *)

Return(v) == [tag |-> "return", value |-> v, exc |-> "", msg |-> ""]

Raise(exc, msg) == [tag |-> "raise", value |-> Dec(0, 0), exc |-> exc, msg |-> msg]

-----------------------------------------------------------------------------
(* The quality kernel.                                                     *)

(* Variants of the kernel with one plausible slip each; the properties of   *)
(* the kernel below are checked to tell the kernel from them.              *)

\* the branch for the top tier is missing: the surplus jump mass is not absorbed
KernelNoAbsorb(starting_quality, ending_quality, max_quality_unlocked, quality_percent) ==
    IF starting_quality > max_quality_unlocked \/ ending_quality > max_quality_unlocked
       \/ ending_quality < starting_quality
    THEN Raise("ValueError", "")
    ELSE IF ending_quality = starting_quality /\ starting_quality = max_quality_unlocked
    THEN Return(DecInt(1))
    ELSE IF ending_quality = starting_quality
    THEN Return(DecSub(DecInt(1), quality_percent))
    ELSE Return(DecMul(DecMul(quality_percent, DecSub(DecInt(1), JUMP_QUALITY_PROBABILITY)),
                       DecPow(JUMP_QUALITY_PROBABILITY, ending_quality - starting_quality - 1)))

\* the exponent counts the first upgrade as a jump too
KernelExtraJump(starting_quality, ending_quality, max_quality_unlocked, quality_percent) ==
    IF starting_quality > max_quality_unlocked \/ ending_quality > max_quality_unlocked
       \/ ending_quality < starting_quality
    THEN Raise("ValueError", "")
    ELSE IF ending_quality = starting_quality /\ starting_quality = max_quality_unlocked
    THEN Return(DecInt(1))
    ELSE IF ending_quality = starting_quality
    THEN Return(DecSub(DecInt(1), quality_percent))
    ELSE IF ending_quality < max_quality_unlocked
    THEN Return(DecMul(DecMul(quality_percent, DecSub(DecInt(1), JUMP_QUALITY_PROBABILITY)),
                       DecPow(JUMP_QUALITY_PROBABILITY, ending_quality - starting_quality)))
    ELSE Return(DecMul(quality_percent,
                       DecPow(JUMP_QUALITY_PROBABILITY, ending_quality - starting_quality)))

\* the first precondition is tested with >= instead of >
KernelStrictBound(starting_quality, ending_quality, max_quality_unlocked, quality_percent) ==
    IF starting_quality >= max_quality_unlocked
    THEN Raise("ValueError", "Starting quality cannot be above max quality unlocked")
    ELSE IF ending_quality > max_quality_unlocked \/ ending_quality < starting_quality
    THEN Raise("ValueError", "")
    ELSE IF ending_quality = starting_quality
    THEN Return(DecSub(DecInt(1), quality_percent))
    ELSE IF ending_quality < max_quality_unlocked
    THEN Return(DecMul(DecMul(quality_percent, DecSub(DecInt(1), JUMP_QUALITY_PROBABILITY)),
                       DecPow(JUMP_QUALITY_PROBABILITY, ending_quality - starting_quality - 1)))
    ELSE Return(DecMul(quality_percent,
                       DecPow(JUMP_QUALITY_PROBABILITY, ending_quality - starting_quality - 1)))

calculate_quality_probability_factor(starting_quality, ending_quality, max_quality_unlocked, quality_percent) ==
    IF starting_quality > max_quality_unlocked
    THEN Raise("ValueError", "Starting quality cannot be above max quality unlocked")
    ELSE IF ending_quality > max_quality_unlocked
    THEN Raise("ValueError", "Ending quality cannot be above max quality unlocked")
    ELSE IF ending_quality < starting_quality
    THEN Raise("ValueError", "Ending quality cannot be below starting quality")
    ELSE IF ending_quality = starting_quality /\ starting_quality = max_quality_unlocked
    THEN Return(DecInt(1))
    ELSE IF ending_quality = starting_quality
    THEN Return(DecSub(DecInt(1), quality_percent))
    ELSE IF ending_quality > starting_quality /\ ending_quality < max_quality_unlocked
    THEN Return(DecMul(DecMul(quality_percent, DecSub(DecInt(1), JUMP_QUALITY_PROBABILITY)),
                       DecPow(JUMP_QUALITY_PROBABILITY, ending_quality - starting_quality - 1)))
    ELSE IF ending_quality > starting_quality /\ ending_quality = max_quality_unlocked
    THEN Return(DecMul(quality_percent,
                       DecPow(JUMP_QUALITY_PROBABILITY, ending_quality - starting_quality - 1)))
    ELSE Raise("RuntimeError", "Reached impossible condition in calculate_quality_probability_factor")

-----------------------------------------------------------------------------
(* Module-level tables of linear_solver.py.                                *)

QUALITY_LEVELS == [name \in {QUALITY_NAMES[i] : i \in 1..Len(QUALITY_NAMES)} |->
                      (CHOOSE i \in 1..Len(QUALITY_NAMES) : QUALITY_NAMES[i] = name) - 1]

Milli(n) == DecNorm(Dec(n, 3))

QUALITY_PROBABILITIES ==
    << <<Milli(10), Milli(13), Milli(16), Milli(19), Milli(25)>>,
       <<Milli(20), Milli(26), Milli(32), Milli(38), Milli(50)>>,
       <<Milli(25), Milli(32), Milli(40), Milli(47), Milli(62)>> >>

SPEED_PENALTIES_PER_QUALITY_MODULE == <<Milli(50), Milli(50), Milli(50)>>

PROD_BONUSES ==
    << <<Milli(40), Milli(50), Milli(60), Milli(70), Milli(100)>>,
       <<Milli(60), Milli(70), Milli(90), Milli(110), Milli(150)>>,
       <<Milli(100), Milli(130), Milli(160), Milli(190), Milli(250)>> >>

SPEED_PENALTIES_PER_PROD_MODULE == <<Milli(50), Milli(100), Milli(150)>>

SPEED_BONUSES ==
    << <<Milli(200), Milli(260), Milli(320), Milli(380), Milli(500)>>,
       <<Milli(300), Milli(390), Milli(480), Milli(570), Milli(750)>>,
       <<Milli(500), Milli(650), Milli(800), Milli(950), Milli(1250)>> >>

QUALITY_PENALTIES_PER_SPEED_MODULE == <<Milli(10), Milli(15), Milli(25)>>

NUM_BEACONED_CHOICES == 17

POSSIBLE_NUM_BEACONED_SPEED_MODULES == [i \in 1..NUM_BEACONED_CHOICES |-> i - 1]

BEACON_EFFICIENCY == Dec(15, 1)

DEFAULT_RESOURCE_CATEGORY == "basic-solid"

-----------------------------------------------------------------------------
(* Python's list indexing: list[i] for -len <= i < len, IndexError         *)
(* otherwise; a negative index counts from the end.                        *)

PyIndexOk(list, i) == (0 - Len(list)) <= i /\ i < Len(list)

PyIndex(list, i) == IF i >= 0 THEN list[i + 1] ELSE list[Len(list) + i + 1]

\* key in dict, for dict = a sequence of records with a key field (insertion order)
HasKey(dict, key) == \E i \in 1..Len(dict) : dict[i].key = key

Lookup(dict, key) == dict[CHOOSE i \in 1..Len(dict) : dict[i].key = key]

\* x in list
InList(x, list) == \E i \in 1..Len(list) : list[i] = x

\* an optional configuration value: absent (or None), or a list
None == [set |-> FALSE, val |-> <<>>]

Some(list) == [set |-> TRUE, val |-> list]

-----------------------------------------------------------------------------
(* num_beacons ** (-0.5) scaled: the integer square root.                  *)

RECURSIVE ISqrtBits(_, _, _)
\* the largest r in lo..hi with r * r <= n, by bisection
ISqrtBits(n, lo, hi) ==
    IF lo >= hi THEN lo
    ELSE LET mid == (lo + hi + 1) \div 2
         IN  IF mid * mid <= n THEN ISqrtBits(n, mid, hi) ELSE ISqrtBits(n, lo, mid - 1)

ISqrt(n) == ISqrtBits(n, 0, 46340)

Ceil2(n) == (n + 1) \div 2

\* num_beaconed_speed_modules * BEACON_EFFICIENCY * num_beacons ** (-0.5), rounded down
\* to three decimals: floor(1000 * 1.5 n / sqrt(b)) = isqrt(1500^2 n^2 / b)
calculate_num_effective_speed_modules(num_beaconed_speed_modules) ==
    IF num_beaconed_speed_modules = 0 THEN DecInt(0)
    ELSE LET num_beacons == Ceil2(num_beaconed_speed_modules)
             scaled == num_beaconed_speed_modules * BEACON_EFFICIENCY.m * 100
         IN  DecNorm(Dec(ISqrt((scaled * scaled) \div num_beacons), 3))

-----------------------------------------------------------------------------
(* The catalogs (config['data']) the model is run on.  Dicts are sequences *)
(* of records with a key field, in insertion order.                        *)

Ingredient(name, amount) == [name |-> name, amount |-> amount]

Recipe(key, category, allow_productivity, energy_required, ingredients, results) ==
    [key |-> key, category |-> category, allow_productivity |-> allow_productivity,
     energy_required |-> energy_required, ingredients |-> ingredients, results |-> results]

Machine(key, crafting_speed, module_slots, crafting_categories, prod_bonus) ==
    [key |-> key, crafting_speed |-> crafting_speed, module_slots |-> module_slots,
     crafting_categories |-> crafting_categories, prod_bonus |-> prod_bonus]

RefItems ==
    << [key |-> "ore", type |-> "item"],
       [key |-> "plate", type |-> "item"],
       [key |-> "water", type |-> "fluid"] >>

Smelt == Recipe("smelt", "smelting", TRUE, Dec(32, 1),
                <<Ingredient("ore", DecInt(1))>>, <<Ingredient("plate", DecInt(1))>>)

Wash == Recipe("wash", "chemistry", FALSE, DecInt(2),
               <<Ingredient("ore", DecInt(1)), Ingredient("water", DecInt(10))>>,
               <<Ingredient("plate", DecInt(2)), Ingredient("water", DecInt(5))>>)

\* recipes naming items the catalog does not have
RewireOne == Recipe("rewire", "smelting", FALSE, DecInt(1),
                    <<Ingredient("red-wire", DecInt(1))>>, <<Ingredient("plate", DecInt(1))>>)

RewireTwo == Recipe("rewire", "smelting", FALSE, DecInt(1),
                    <<Ingredient("red-wire", DecInt(1)), Ingredient("green-wire", DecInt(1))>>,
                    <<Ingredient("plate", DecInt(1))>>)

\* a recipe no machine of the catalog can craft
Launch == Recipe("launch", "rocket-building", FALSE, DecInt(3),
                 <<Ingredient("plate", DecInt(1))>>, <<Ingredient("plate", DecInt(1))>>)

\* a recipe whose results use the optional fields of a product prototype
Sift == Recipe("sift", "smelting", TRUE, DecInt(2),
               <<Ingredient("ore", DecInt(1))>>,
               << [name |-> "plate", amount_min |-> DecInt(1), amount_max |-> DecInt(3),
                   probability |-> Dec(5, 1), ignored_by_productivity |-> DecInt(1),
                   extra_count_fraction |-> Dec(25, 2)],
                  [name |-> "ore", amount |-> DecInt(1), probability |-> Dec(25, 2)] >>)

\* a recipe whose result is no item of the catalog
Slag == Recipe("slag", "smelting", FALSE, DecInt(1),
               <<Ingredient("ore", DecInt(1))>>, <<Ingredient("slag", DecInt(1))>>)

Furnace == Machine("furnace", DecInt(2), 2, {"smelting"}, DecInt(0))

Plant == Machine("plant", DecInt(1), 1, {"chemistry"}, Dec(5, 1))

\* as good as the furnace in every respect
FurnaceTwin == Machine("furnace-b", DecInt(2), 2, {"smelting"}, DecInt(0))

\* more slots than the furnace, but slower
FurnaceWide == Machine("furnace-w", DecInt(1), 3, {"smelting"}, DecInt(0))

\* worse than the furnace in every respect
FurnaceStone == Machine("furnace-s", DecInt(1), 0, {"smelting"}, DecInt(0))

\* a machine with four module slots
Assembler == Machine("assembler", Dec(125, 2), 4, {"smelting"}, DecInt(0))

Drill == [key |-> "drill", module_slots |-> 1, mining_speed |-> Dec(5, 1),
          resource_categories |-> {"basic-solid"}]

OreResource ==
    [key |-> "ore", mining_time |-> DecInt(1), results |-> <<Ingredient("ore", DecInt(1))>>,
     has_category |-> FALSE, category |-> "",
     has_required_fluid |-> FALSE, required_fluid |-> "", fluid_amount |-> DecInt(0)]

OreResourceWet ==
    [OreResource EXCEPT !.has_required_fluid = TRUE, !.required_fluid = "water",
                        !.fluid_amount = DecInt(10),
                        !.has_category = TRUE, !.category = "basic-solid"]

RefData ==
    [items |-> RefItems, recipes |-> <<Smelt, Wash>>, crafting_machines |-> <<Furnace, Plant>>,
     mining_drills |-> <<Drill>>, resources |-> <<OreResource>>]

CatalogNames ==
    {"reference", "ghost-one", "ghost-two", "bare", "no-machines", "twins", "split",
     "stone", "orphan", "wet", "one-step", "lottery", "phantom"}

Catalog(name) ==
    CASE name = "reference" -> RefData
      [] name = "ghost-one" -> [RefData EXCEPT !.recipes = <<RewireOne, Smelt, Wash>>]
      [] name = "ghost-two" -> [RefData EXCEPT !.recipes = <<Smelt, RewireTwo, Wash>>]
      [] name = "bare" -> [RefData EXCEPT !.recipes = <<>>, !.resources = <<>>]
      [] name = "no-machines" -> [RefData EXCEPT !.crafting_machines = <<>>, !.mining_drills = <<>>]
      [] name = "twins" -> [RefData EXCEPT !.crafting_machines = <<Furnace, Plant, FurnaceTwin>>]
      [] name = "split" -> [RefData EXCEPT !.crafting_machines = <<Furnace, Plant, FurnaceWide>>]
      [] name = "stone" -> [RefData EXCEPT !.crafting_machines = <<FurnaceStone, Furnace, Plant>>]
      [] name = "orphan" -> [RefData EXCEPT !.recipes = <<Launch, Smelt, Wash>>]
      [] name = "wet" -> [RefData EXCEPT !.resources = <<OreResourceWet>>]
      [] name = "lottery" -> [RefData EXCEPT !.recipes = <<Smelt, Wash, Sift>>]
      [] name = "phantom" -> [RefData EXCEPT !.recipes = <<Smelt, Slag, Wash>>]
      \* one crafting recipe from ore to plate, nothing to mine, nothing to recycle
      [] name = "one-step" ->
            [items |-> SubSeq(RefItems, 1, 2), recipes |-> <<Smelt>>,
             crafting_machines |-> <<Assembler>>, mining_drills |-> <<>>, resources |-> <<>>]

-----------------------------------------------------------------------------
(* The configurations the model is run on: the reference configuration     *)
(* with at most MaxVaried of its option groups changed.                    *)

MaxVaried == 2

Input(key, quality, resource, cost) ==
    [key |-> key, quality |-> quality, resource |-> resource, cost |-> cost]

Output(key, quality, amount) == [key |-> key, quality |-> quality, amount |-> amount]

\* the output_filename argument of the constructor: None, or a file name
NoFile == [set |-> FALSE, name |-> ""]

File(name) == [set |-> TRUE, name |-> name]

RefModules ==
    [quality_module_tier |-> 3, quality_module_quality |-> "legendary",
     prod_module_tier |-> 3, prod_module_quality |-> "legendary",
     speed_module_tier |-> 3, speed_module_quality |-> "legendary"]

TierInputs == (0 - 3)..4

QualityInputs == {QUALITY_NAMES[i] : i \in 1..Len(QUALITY_NAMES)} \cup {"mythic"}

ModuleInputs ==
    {[RefModules EXCEPT !.quality_module_tier = t] : t \in TierInputs}
    \cup {[RefModules EXCEPT !.prod_module_tier = t] : t \in TierInputs}
    \cup {[RefModules EXCEPT !.speed_module_tier = t] : t \in TierInputs}
    \cup {[RefModules EXCEPT !.quality_module_quality = n] : n \in QualityInputs}
    \cup {[RefModules EXCEPT !.prod_module_quality = n] : n \in QualityInputs}
    \cup {[RefModules EXCEPT !.speed_module_quality = n] : n \in QualityInputs}

RefScenario ==
    [modules |-> RefModules,
     check_speed_modules |-> "absent",
     allow_byproducts |-> "absent",
     recipe_lists |-> <<None, None>>,
     machine_lists |-> <<None, None>>,
     max_quality_unlocked |-> "legendary",
     building_quality |-> "legendary",
     inputs |-> <<Input("ore", "normal", TRUE, DecInt(1))>>,
     outputs |-> <<Output("plate", "legendary", DecInt(1))>>,
     output_filename |-> NoFile,
     data |-> "reference"]

Groups == DOMAIN RefScenario

Alternatives(g) ==
    CASE g = "modules" -> ModuleInputs
      [] g = "check_speed_modules" -> {"absent", "true", "false"}
      [] g = "allow_byproducts" -> {"absent", "true", "false"}
      [] g = "recipe_lists" ->
            { <<a, d>> : a \in {None, Some(<<>>), Some(<<"launch">>), Some(<<"smelt", "ore-mining">>)},
                         d \in {None, Some(<<"wash">>)} }
      [] g = "machine_lists" ->
            { <<a, d>> : a \in {None, Some(<<"furnace", "drill">>)},
                         d \in {None, Some(<<"plant">>), Some(<<"drill">>)} }
      [] g = "max_quality_unlocked" -> QualityInputs
      [] g = "building_quality" -> {"normal", "legendary"}
      [] g = "inputs" ->
            { <<Input("ore", "normal", TRUE, DecInt(1))>>,
              <<Input("ore", "rare", TRUE, DecInt(1))>>,
              <<Input("ore", "normal", FALSE, DecInt(1))>>,
              <<Input("ore", "normal", TRUE, DecInt(1)), Input("water", "normal", FALSE, Dec(1, 1))>>,
              <<Input("ore", "uncommon", FALSE, DecInt(2)), Input("ore", "normal", FALSE, DecInt(1))>>,
              <<Input("stone", "normal", TRUE, DecInt(1))>> }
      [] g = "outputs" ->
            { <<Output("plate", "legendary", DecInt(1))>>,
              <<Output("plate", "normal", DecInt(1))>>,
              <<Output("plate", "normal", DecInt(1)), Output("water", "normal", DecInt(3))>>,
              <<Output("water", "uncommon", DecInt(1))>>,
              <<>> }
      [] g = "output_filename" -> {NoFile, File("solution.csv")}
      [] g = "data" -> CatalogNames

RECURSIVE Scenarios(_)
Scenarios(k) ==
    IF k = 0 THEN {RefScenario}
    ELSE LET prev == Scenarios(k - 1)
         IN  prev \cup UNION { UNION { {[s EXCEPT ![g] = v] : v \in Alternatives(g)}
                                       : g \in Groups } : s \in prev }

\* the one-step scenarios: a supply of normal ore, a demand of one legendary plate,
\* one recipe, with the byproduct, beacon and module options varied
OneStepScenario ==
    [RefScenario EXCEPT !.data = "one-step",
                        !.inputs = <<Input("ore", "normal", FALSE, DecInt(1))>>,
                        !.allow_byproducts = "false"]

OneStepScenarios ==
    {[OneStepScenario EXCEPT !.allow_byproducts = b, !.check_speed_modules = c, !.modules = m] :
        b \in {"false", "true"}, c \in {"absent", "true"}, m \in ModuleInputs}

MkConfig(scn) ==
    [quality_module_tier |-> scn.modules.quality_module_tier,
     quality_module_quality |-> scn.modules.quality_module_quality,
     prod_module_tier |-> scn.modules.prod_module_tier,
     prod_module_quality |-> scn.modules.prod_module_quality,
     speed_module_tier |-> scn.modules.speed_module_tier,
     speed_module_quality |-> scn.modules.speed_module_quality,
     check_speed_modules |-> scn.check_speed_modules,
     allow_byproducts |-> scn.allow_byproducts,
     allowed_recipes |-> scn.recipe_lists[1],
     disallowed_recipes |-> scn.recipe_lists[2],
     allowed_crafting_machines |-> scn.machine_lists[1],
     disallowed_crafting_machines |-> scn.machine_lists[2],
     max_quality_unlocked |-> scn.max_quality_unlocked,
     building_quality |-> scn.building_quality,
     building_cost |-> DecInt(1),
     module_cost |-> DecInt(1),
     inputs |-> scn.inputs,
     outputs |-> scn.outputs,
     \* the second argument of LinearSolver(config, output_filename), carried with the config
     output_filename |-> scn.output_filename,
     data |-> scn.data]

-----------------------------------------------------------------------------
(* LinearSolver.__init__                                                   *)

Range0(n) == [i \in 1..(n + 1) |-> i - 1]    \* list(range(n + 1))

Truthy(option) == option = "true"            \* the truth value of an optional boolean

Built(obj) == [tag |-> "return", exc |-> "", msg |-> "", obj |-> obj]

Failed(exc, msg) == [tag |-> "raise", exc |-> exc, msg |-> msg, obj |-> <<>>]

\* the qualities are added to the ones the item already carries
TagItemsExtending(items, max_quality_unlocked) ==
    [i \in 1..Len(items) |->
        LET item_allows_quality == items[i].type # "fluid"
            carried == IF "qualities" \in DOMAIN items[i] THEN items[i].qualities ELSE <<>>
        IN  [allows_quality |-> item_allows_quality,
             qualities |-> carried \o (IF item_allows_quality THEN Range0(max_quality_unlocked) ELSE <<0>>)]
            @@ items[i]]

\* lines 178-181: every item is tagged with allows_quality and qualities
TagItems(items, max_quality_unlocked) ==
    [i \in 1..Len(items) |->
        LET item_allows_quality == items[i].type # "fluid"
        IN  [allows_quality |-> item_allows_quality,
             qualities |-> IF item_allows_quality THEN Range0(max_quality_unlocked) ELSE <<0>>]
            @@ items[i]]

\* del dict[key]
DelKey(dict, key) == SelectSeq(dict, LAMBDA r : r.key # key)

\* lines 189-197: the loop over the ingredients of one recipe.  st carries the recipes
\* dict, recipe_allows_quality and whether del raised KeyError.
RECURSIVE NormalizeIngredients(_, _, _, _, _)
NormalizeIngredients(st, items, recipe_key, ingredients, i) ==
    IF i > Len(ingredients) \/ st.raised THEN st
    ELSE IF ~HasKey(items, ingredients[i].name)
    THEN IF HasKey(st.recipes, recipe_key)
         THEN NormalizeIngredients([st EXCEPT !.recipes = DelKey(st.recipes, recipe_key)],
                                   items, recipe_key, ingredients, i + 1)
         ELSE [st EXCEPT !.raised = TRUE]
    ELSE NormalizeIngredients(
            [st EXCEPT !.allows = st.allows \/ Lookup(items, ingredients[i].name).allows_quality],
            items, recipe_key, ingredients, i + 1)

\* recipe_data['allows_quality'] = ..., recipe_data['qualities'] = ... (lines 198-199);
\* they land on the record still in the dict, if it is
TagRecipe(recipes, recipe_key, recipe_allows_quality, max_quality_unlocked) ==
    [j \in 1..Len(recipes) |->
        IF recipes[j].key = recipe_key
        THEN [allows_quality |-> recipe_allows_quality,
              qualities |-> IF recipe_allows_quality THEN Range0(max_quality_unlocked) ELSE <<0>>]
             @@ recipes[j]
        ELSE recipes[j]]

\* lines 184-199: the loop over recipe_keys, a copy of the keys taken before the loop
RECURSIVE NormalizeRecipes(_, _, _, _, _)
NormalizeRecipes(recipes, raised, original, items, max_quality_unlocked) ==
    IF original = <<>> \/ raised THEN [recipes |-> recipes, raised |-> raised]
    ELSE LET recipe_data == Head(original)
             st == NormalizeIngredients([recipes |-> recipes, allows |-> FALSE, raised |-> FALSE],
                                        items, recipe_data.key, recipe_data.ingredients, 1)
         IN  IF st.raised THEN [recipes |-> st.recipes, raised |-> TRUE]
             ELSE NormalizeRecipes(TagRecipe(st.recipes, recipe_data.key, st.allows, max_quality_unlocked),
                                   FALSE, Tail(original), items, max_quality_unlocked)

ModuleTableError(cfg) ==
    IF cfg.quality_module_quality \notin DOMAIN QUALITY_LEVELS THEN "KeyError"
    ELSE IF ~PyIndexOk(QUALITY_PROBABILITIES, cfg.quality_module_tier - 1) THEN "IndexError"
    ELSE IF cfg.prod_module_quality \notin DOMAIN QUALITY_LEVELS THEN "KeyError"
    ELSE IF ~PyIndexOk(PROD_BONUSES, cfg.prod_module_tier - 1) THEN "IndexError"
    ELSE IF cfg.speed_module_quality \notin DOMAIN QUALITY_LEVELS THEN "KeyError"
    ELSE IF ~PyIndexOk(SPEED_BONUSES, cfg.speed_module_tier - 1) THEN "IndexError"
    ELSE ""

LinearSolver_init(cfg, dat) ==
    IF ModuleTableError(cfg) # ""
    THEN Failed(ModuleTableError(cfg), "module tier or quality")
    ELSE IF cfg.max_quality_unlocked \notin DOMAIN QUALITY_LEVELS
    THEN Failed("KeyError", cfg.max_quality_unlocked)
    ELSE
    LET quality_module_tier == cfg.quality_module_tier
        prod_module_tier == cfg.prod_module_tier
        speed_module_tier == cfg.speed_module_tier
        max_quality_unlocked == QUALITY_LEVELS[cfg.max_quality_unlocked]
        items == TagItems(dat.items, max_quality_unlocked)
        norm == NormalizeRecipes(dat.recipes, FALSE, dat.recipes, items, max_quality_unlocked)
    IN  IF norm.raised THEN Failed("KeyError", "del self.recipes[recipe_key]")
        ELSE Built(
          [output_filename |-> cfg.output_filename,
           quality_module_probability |->
               PyIndex(PyIndex(QUALITY_PROBABILITIES, quality_module_tier - 1),
                       QUALITY_LEVELS[cfg.quality_module_quality]),
           prod_module_bonus |->
               PyIndex(PyIndex(PROD_BONUSES, prod_module_tier - 1),
                       QUALITY_LEVELS[cfg.prod_module_quality]),
           speed_module_bonus |->
               PyIndex(PyIndex(SPEED_BONUSES, speed_module_tier - 1),
                       QUALITY_LEVELS[cfg.speed_module_quality]),
           possible_num_beaconed_speed_modules |->
               IF Truthy(cfg.check_speed_modules) THEN POSSIBLE_NUM_BEACONED_SPEED_MODULES ELSE <<0>>,
           speed_penalty_per_quality_module |->
               PyIndex(SPEED_PENALTIES_PER_QUALITY_MODULE, quality_module_tier - 1),
           speed_penalty_per_prod_module |->
               PyIndex(SPEED_PENALTIES_PER_PROD_MODULE, prod_module_tier - 1),
           quality_penalty_per_speed_module |->
               PyIndex(QUALITY_PENALTIES_PER_SPEED_MODULE, speed_module_tier - 1),
           allow_byproducts |-> cfg.allow_byproducts,
           allowed_recipes |-> cfg.allowed_recipes,
           disallowed_recipes |-> cfg.disallowed_recipes,
           allowed_crafting_machines |-> cfg.allowed_crafting_machines,
           disallowed_crafting_machines |-> cfg.disallowed_crafting_machines,
           max_quality_unlocked |-> max_quality_unlocked,
           building_cost |-> cfg.building_cost,
           module_cost |-> cfg.module_cost,
           inputs |-> cfg.inputs,
           outputs |-> cfg.outputs,
           resources |-> dat.resources,
           mining_drills |-> dat.mining_drills,
           items |-> items,
           crafting_machines |-> dat.crafting_machines,
           recipes |-> norm.recipes])

-----------------------------------------------------------------------------
(* Identifiers.                                                            *)

get_recipe_id(recipe_key, quality, crafting_machine_key, num_qual_modules, num_prod_modules, num_beaconed_speed_modules) ==
    QUALITY_NAMES[quality + 1] \o "__" \o recipe_key \o "__" \o crafting_machine_key \o "__"
        \o ToString(num_qual_modules) \o "-qual__" \o ToString(num_prod_modules) \o "-prod__"
        \o ToString(num_beaconed_speed_modules) \o "-beaconed-speed"

\* the synthetic item under the resource's own key
ResourceKeyUnsuffixed(item_key) == item_key

get_resource_item_key(item_key) == item_key \o "-resource"

get_resource_recipe_key(item_key) == item_key \o "-mining"

get_item_id(item_key, quality) == QUALITY_NAMES[quality + 1] \o "__" \o item_key

get_input_id(item_id) == "input__" \o item_id

get_byproduct_id(item_id) == "byproduct__" \o item_id

get_output_id(item_id) == "output__" \o item_id

-----------------------------------------------------------------------------
(* Dicts as sequences of records with a key field.                         *)

\* dict[rec.key] = rec: replaces the value of an existing key in place, else appends
DictSet(dict, rec) ==
    IF HasKey(dict, rec.key)
    THEN [i \in 1..Len(dict) |-> IF dict[i].key = rec.key THEN rec ELSE dict[i]]
    ELSE Append(dict, rec)

\* solver_items[item_id].append(term), where item_id is a key of solver_items
AppendTerm(solver_items, item_id, term) ==
    [i \in 1..Len(solver_items) |->
        IF solver_items[i].key = item_id
        THEN [solver_items[i] EXCEPT !.terms = Append(@, term)]
        ELSE solver_items[i]]

Term(kind, var, sign, amount, speed, factor, energy) ==
    [kind |-> kind, var |-> var, sign |-> sign, amount |-> amount, speed |-> speed,
     factor |-> factor, energy |-> energy,
     \* what the kernel was given, for a result term whose factor the kernel computed
     kernel |-> FALSE, quality_percent |-> DecInt(0)]

-----------------------------------------------------------------------------
(* The allow / deny filters.                                               *)

\* the recipes made of resources pass whatever the lists say
recipe_is_allowed_sparing_mining(obj, recipe_key) ==
    IF obj.allowed_recipes.set /\ obj.disallowed_recipes.set
    THEN Raise("RuntimeError", "Illegal configuration. Cannot set both allowed_recipes and disallowed_recipes.")
    ELSE IF \E i \in 1..Len(obj.resources) :
                recipe_key = get_resource_recipe_key(obj.resources[i].key)
    THEN Return(TRUE)
    ELSE IF obj.allowed_recipes.set
    THEN Return(InList(recipe_key, obj.allowed_recipes.val))
    ELSE IF obj.disallowed_recipes.set
    THEN Return(~InList(recipe_key, obj.disallowed_recipes.val))
    ELSE Return(TRUE)

recipe_is_allowed(obj, recipe_key) ==
    IF obj.allowed_recipes.set /\ obj.disallowed_recipes.set
    THEN Raise("RuntimeError", "Illegal configuration. Cannot set both allowed_recipes and disallowed_recipes.")
    ELSE IF obj.allowed_recipes.set
    THEN Return(InList(recipe_key, obj.allowed_recipes.val))
    ELSE IF obj.disallowed_recipes.set
    THEN Return(~InList(recipe_key, obj.disallowed_recipes.val))
    ELSE Return(TRUE)

crafting_machine_is_allowed(obj, crafting_machine_key) ==
    IF obj.allowed_crafting_machines.set /\ obj.disallowed_crafting_machines.set
    THEN Raise("RuntimeError", "Illegal configuration. Cannot set both allowed_crafting_machines and disallowed_crafting_machines.")
    ELSE IF obj.allowed_crafting_machines.set
    THEN Return(InList(crafting_machine_key, obj.allowed_crafting_machines.val))
    ELSE IF obj.disallowed_crafting_machines.set
    THEN Return(~InList(crafting_machine_key, obj.disallowed_crafting_machines.val))
    ELSE Return(TRUE)

-----------------------------------------------------------------------------
(* setup_resource, setup_mining_drill, setup_item                          *)

setup_resource(obj, resource_data) ==
    LET item_key == resource_data.key
        resource_item_key == get_resource_item_key(item_key)
        resource_recipe_key == get_resource_recipe_key(item_key)
        ingredients ==
            <<Ingredient(resource_item_key, DecInt(1))>>
            \o (IF resource_data.has_required_fluid
                THEN <<Ingredient(resource_data.required_fluid, resource_data.fluid_amount)>>
                ELSE <<>>)
        mock_item_data ==
            [key |-> resource_item_key, allows_quality |-> FALSE, qualities |-> <<0>>]
        mock_recipe_data ==
            [key |-> resource_recipe_key,
             allow_productivity |-> FALSE,
             ingredients |-> ingredients,
             results |-> resource_data.results,
             energy_required |-> resource_data.mining_time,
             category |-> IF resource_data.has_category THEN resource_data.category
                          ELSE DEFAULT_RESOURCE_CATEGORY,
             allows_quality |-> FALSE,
             qualities |-> <<0>>]
    IN  [obj EXCEPT !.items = DictSet(@, mock_item_data),
                    !.recipes = DictSet(@, mock_recipe_data)]

\* the drill's mining_speed is not taken over
setup_mining_drill_unit_speed(obj, mining_drill_data) ==
    LET mock_crafting_machine_data ==
            [key |-> mining_drill_data.key,
             module_slots |-> mining_drill_data.module_slots,
             crafting_speed |-> DecInt(1),
             crafting_categories |-> mining_drill_data.resource_categories,
             prod_bonus |-> DecInt(0)]
    IN  [obj EXCEPT !.crafting_machines = DictSet(@, mock_crafting_machine_data)]

setup_mining_drill(obj, mining_drill_data) ==
    LET mock_crafting_machine_data ==
            [key |-> mining_drill_data.key,
             module_slots |-> mining_drill_data.module_slots,
             crafting_speed |-> mining_drill_data.mining_speed,
             crafting_categories |-> mining_drill_data.resource_categories,
             prod_bonus |-> DecInt(0)]
    IN  [obj EXCEPT !.crafting_machines = DictSet(@, mock_crafting_machine_data)]

\* self.solver_items[item_id] = [] for every quality of the item
RECURSIVE setup_item_from(_, _, _)
setup_item_from(solver_items, item_data, i) ==
    IF i > Len(item_data.qualities) THEN solver_items
    ELSE setup_item_from(
            DictSet(solver_items,
                    [key |-> get_item_id(item_data.key, item_data.qualities[i]), terms |-> <<>>]),
            item_data, i + 1)

setup_item(solver_items, item_data) == setup_item_from(solver_items, item_data, 1)

-----------------------------------------------------------------------------
(* get_best_crafting_machine                                               *)

DecEq(a, b) == DecNorm(a) = DecNorm(b)

\* the permitted machines, whatever categories they craft
PermittedAnyCategory(obj, recipe_category) ==
    SelectSeq(obj.crafting_machines,
              LAMBDA c : crafting_machine_is_allowed(obj, c.key).value)

\* the machines whose crafting_machine_is_allowed(...) and (category in ...) holds
PermittedMachines(obj, recipe_category) ==
    SelectSeq(obj.crafting_machines,
              LAMBDA c : crafting_machine_is_allowed(obj, c.key).value
                         /\ recipe_category \in c.crafting_categories)

\* a tie is settled in favour of the first machine of the catalog
BestMachineFirstOfTied(obj, recipe_data) ==
    LET recipe_category == recipe_data.category
    IN  \* the filter is evaluated for every machine, and raises on the first one
        IF obj.crafting_machines # <<>>
           /\ crafting_machine_is_allowed(obj, obj.crafting_machines[1].key).tag = "raise"
        THEN crafting_machine_is_allowed(obj, obj.crafting_machines[1].key)
        ELSE
        LET allowed_crafting_machines == PermittedMachines(obj, recipe_category)
            n == Len(allowed_crafting_machines)
        IN  IF n = 0 THEN Return("None")
            ELSE
            LET max_module_slots ==
                    CHOOSE m \in {allowed_crafting_machines[i].module_slots : i \in 1..n} :
                        \A i \in 1..n : allowed_crafting_machines[i].module_slots <= m
                max_prod_bonus ==
                    CHOOSE m \in {allowed_crafting_machines[i].prod_bonus : i \in 1..n} :
                        \A i \in 1..n : DecLeq(allowed_crafting_machines[i].prod_bonus, m)
                max_crafting_speed ==
                    CHOOSE m \in {allowed_crafting_machines[i].crafting_speed : i \in 1..n} :
                        \A i \in 1..n : DecLeq(allowed_crafting_machines[i].crafting_speed, m)
                best_crafting_machine ==
                    SelectSeq(allowed_crafting_machines,
                              LAMBDA c : /\ c.module_slots = max_module_slots
                                         /\ DecEq(c.prod_bonus, max_prod_bonus)
                                         /\ DecEq(c.crafting_speed, max_crafting_speed))
            IN  IF Len(best_crafting_machine) = 0
                THEN Raise("RuntimeError", "Unable to disambiguate best crafting machine")
                ELSE [tag |-> "return", value |-> "machine", exc |-> "", msg |-> "",
                      machine |-> best_crafting_machine[1]]

\* a recipe none of whose machines attains the three maxima is skipped
BestMachineSkipsSplit(obj, recipe_data) ==
    LET recipe_category == recipe_data.category
    IN  \* the filter is evaluated for every machine, and raises on the first one
        IF obj.crafting_machines # <<>>
           /\ crafting_machine_is_allowed(obj, obj.crafting_machines[1].key).tag = "raise"
        THEN crafting_machine_is_allowed(obj, obj.crafting_machines[1].key)
        ELSE
        LET allowed_crafting_machines == PermittedMachines(obj, recipe_category)
            n == Len(allowed_crafting_machines)
        IN  IF n = 0 THEN Return("None")
            ELSE
            LET max_module_slots ==
                    CHOOSE m \in {allowed_crafting_machines[i].module_slots : i \in 1..n} :
                        \A i \in 1..n : allowed_crafting_machines[i].module_slots <= m
                max_prod_bonus ==
                    CHOOSE m \in {allowed_crafting_machines[i].prod_bonus : i \in 1..n} :
                        \A i \in 1..n : DecLeq(allowed_crafting_machines[i].prod_bonus, m)
                max_crafting_speed ==
                    CHOOSE m \in {allowed_crafting_machines[i].crafting_speed : i \in 1..n} :
                        \A i \in 1..n : DecLeq(allowed_crafting_machines[i].crafting_speed, m)
                best_crafting_machine ==
                    SelectSeq(allowed_crafting_machines,
                              LAMBDA c : /\ c.module_slots = max_module_slots
                                         /\ DecEq(c.prod_bonus, max_prod_bonus)
                                         /\ DecEq(c.crafting_speed, max_crafting_speed))
            IN  IF Len(best_crafting_machine) = 0 THEN Return("None")
                ELSE IF Len(best_crafting_machine) # 1
                THEN Raise("RuntimeError", "Unable to disambiguate best crafting machine")
                ELSE [tag |-> "return", value |-> "machine", exc |-> "", msg |-> "",
                      machine |-> best_crafting_machine[1]]

get_best_crafting_machine(obj, recipe_data) ==
    LET recipe_category == recipe_data.category
    IN  \* the filter is evaluated for every machine, and raises on the first one
        IF obj.crafting_machines # <<>>
           /\ crafting_machine_is_allowed(obj, obj.crafting_machines[1].key).tag = "raise"
        THEN crafting_machine_is_allowed(obj, obj.crafting_machines[1].key)
        ELSE
        LET allowed_crafting_machines == PermittedMachines(obj, recipe_category)
            n == Len(allowed_crafting_machines)
        IN  IF n = 0 THEN Return("None")
            ELSE
            LET max_module_slots ==
                    CHOOSE m \in {allowed_crafting_machines[i].module_slots : i \in 1..n} :
                        \A i \in 1..n : allowed_crafting_machines[i].module_slots <= m
                max_prod_bonus ==
                    CHOOSE m \in {allowed_crafting_machines[i].prod_bonus : i \in 1..n} :
                        \A i \in 1..n : DecLeq(allowed_crafting_machines[i].prod_bonus, m)
                max_crafting_speed ==
                    CHOOSE m \in {allowed_crafting_machines[i].crafting_speed : i \in 1..n} :
                        \A i \in 1..n : DecLeq(allowed_crafting_machines[i].crafting_speed, m)
                best_crafting_machine ==
                    SelectSeq(allowed_crafting_machines,
                              LAMBDA c : /\ c.module_slots = max_module_slots
                                         /\ DecEq(c.prod_bonus, max_prod_bonus)
                                         /\ DecEq(c.crafting_speed, max_crafting_speed))
            IN  IF Len(best_crafting_machine) # 1
                THEN Raise("RuntimeError", "Unable to disambiguate best crafting machine")
                ELSE [tag |-> "return", value |-> "machine", exc |-> "", msg |-> "",
                      machine |-> best_crafting_machine[1]]

-----------------------------------------------------------------------------
(* calculate_expected_amount                                               *)

Field(rec, name, default) == IF name \in DOMAIN rec THEN rec[name] ELSE default

\* the productivity bonus is multiplied in a second time
ExpectedAmountDoubleCount(result_data, prod_bonus) ==
    LET base_amount ==
            IF "amount" \in DOMAIN result_data THEN result_data.amount
            ELSE DecMul(Dec(5, 1), DecAdd(result_data.amount_min, result_data.amount_max))
        probabiity_factor == Field(result_data, "probability", DecInt(1))
        ignored_by_productivity == Field(result_data, "ignored_by_productivity", DecInt(0))
        extra_count_fraction == Field(result_data, "extra_count_fraction", DecInt(0))
        base_amount_after_prod ==
            DecAdd(ignored_by_productivity,
                   DecMul(DecSub(base_amount, ignored_by_productivity),
                          DecAdd(DecInt(1), prod_bonus)))
    IN  DecMul(DecMul(DecMul(base_amount_after_prod, probabiity_factor),
                      DecAdd(DecInt(1), extra_count_fraction)),
               DecAdd(DecInt(1), prod_bonus))

calculate_expected_amount(result_data, prod_bonus) ==
    LET base_amount ==
            IF "amount" \in DOMAIN result_data THEN result_data.amount
            ELSE DecMul(Dec(5, 1), DecAdd(result_data.amount_min, result_data.amount_max))
        probabiity_factor == Field(result_data, "probability", DecInt(1))
        ignored_by_productivity == Field(result_data, "ignored_by_productivity", DecInt(0))
        extra_count_fraction == Field(result_data, "extra_count_fraction", DecInt(0))
        base_amount_after_prod ==
            DecAdd(ignored_by_productivity,
                   DecMul(DecSub(base_amount, ignored_by_productivity),
                          DecAdd(DecInt(1), prod_bonus)))
    IN  DecMul(DecMul(base_amount_after_prod, probabiity_factor),
               DecAdd(DecInt(1), extra_count_fraction))

-----------------------------------------------------------------------------
(* Steps of run().  A step state st is [lp, exc, msg]: the LP so far and   *)
(* the exception raised, if any ("" if none).                              *)

Ok(l) == [lp |-> l, exc |-> "", msg |-> ""]

Thrown(l, exc, msg) == [lp |-> l, exc |-> exc, msg |-> msg]

-----------------------------------------------------------------------------
(* setup_recipe_var.  The body of its loop reads self.items, the keys of   *)
(* solver_items and its own local variables, never what earlier iterations *)
(* wrote.  So the loop is modelled as the list of its effects in program   *)
(* order: "var" (lines 317-322, the activity variable and the counters),   *)
(* "term" (one append to solver_items[item_id]) and "raise" (an            *)
(* exception); the effects before the first "raise" are the ones that      *)
(* happen.                                                                 *)

VarEffect(act) == [op |-> "var", act |-> act, item_id |-> "", term |-> <<>>, exc |-> "", msg |-> ""]

TermEffect(item_id, term) ==
    [op |-> "term", act |-> <<>>, item_id |-> item_id, term |-> term, exc |-> "", msg |-> ""]

RaiseEffect(exc, msg) ==
    [op |-> "raise", act |-> <<>>, item_id |-> "", term |-> <<>>, exc |-> exc, msg |-> msg]

\* the operands of the subtraction are swapped
QualityPercentSwapped(obj, num_qual_modules, num_effective_speed_modules) ==
    DecSub(DecMul(num_effective_speed_modules, obj.quality_penalty_per_speed_module),
           DecMul(DecInt(num_qual_modules), obj.quality_module_probability))

\* line 349
QualityPercent(obj, num_qual_modules, num_effective_speed_modules) ==
    DecSub(DecMul(DecInt(num_qual_modules), obj.quality_module_probability),
           DecMul(num_effective_speed_modules, obj.quality_penalty_per_speed_module))

\* line 313
SpeedFactor(obj, crafting_machine_speed, num_qual_modules, num_prod_modules, num_effective_speed_modules) ==
    DecMul(crafting_machine_speed,
           DecSub(DecAdd(DecInt(1), DecMul(num_effective_speed_modules, obj.speed_module_bonus)),
                  DecAdd(DecMul(DecInt(num_qual_modules), obj.speed_penalty_per_quality_module),
                         DecMul(DecInt(num_prod_modules), obj.speed_penalty_per_prod_module))))

\* the local variables of one iteration of the loop of setup_recipe_var (lines 302-317)
Activity(obj, recipe_data, crafting_machine_data, recipe_quality, num_qual_modules, num_beaconed_speed_modules) ==
    LET crafting_machine_module_slots == crafting_machine_data.module_slots
        num_prod_modules ==
            IF recipe_data.allow_productivity
            THEN crafting_machine_module_slots - num_qual_modules ELSE 0
        num_modules == num_qual_modules + num_prod_modules + num_beaconed_speed_modules
        num_effective_speed_modules ==
            calculate_num_effective_speed_modules(num_beaconed_speed_modules)
        prod_bonus ==
            DecAdd(DecMul(DecInt(num_prod_modules), obj.prod_module_bonus),
                   crafting_machine_data.prod_bonus)
        speed_factor ==
            SpeedFactor(obj, crafting_machine_data.crafting_speed, num_qual_modules,
                        num_prod_modules, num_effective_speed_modules)
    IN  [key |-> get_recipe_id(recipe_data.key, recipe_quality, crafting_machine_data.key,
                               num_qual_modules, num_prod_modules, num_beaconed_speed_modules),
         recipe_key |-> recipe_data.key,
         recipe_quality |-> recipe_quality,
         crafting_machine_key |-> crafting_machine_data.key,
         num_qual_modules |-> num_qual_modules,
         num_prod_modules |-> num_prod_modules,
         num_beaconed_speed_modules |-> num_beaconed_speed_modules,
         num_modules |-> num_modules,
         num_effective_speed_modules |-> num_effective_speed_modules,
         prod_bonus |-> prod_bonus,
         speed_factor |-> speed_factor]

\* every activity takes its ingredients at the normal tier
IngredientAtNormal(obj, item_ids, act, recipe_data, ingredient) ==
    IF ~HasKey(obj.items, ingredient.name)
    THEN RaiseEffect("KeyError", ingredient.name)
    ELSE
    LET ingredient_item_data == Lookup(obj.items, ingredient.name)
        ingredient_quality == 0
        ingredient_item_id == get_item_id(ingredient.name, ingredient_quality)
    IN  IF ingredient_item_id \notin item_ids
        THEN RaiseEffect("KeyError", ingredient_item_id)
        ELSE TermEffect(ingredient_item_id,
                        Term("ingredient", act.key, -1, ingredient.amount, act.speed_factor,
                             DecInt(1), recipe_data.energy_required))

\* the amount is not scaled by the speed factor
IngredientIgnoringSpeed(obj, item_ids, act, recipe_data, ingredient) ==
    IF ~HasKey(obj.items, ingredient.name)
    THEN RaiseEffect("KeyError", ingredient.name)
    ELSE
    LET ingredient_item_data == Lookup(obj.items, ingredient.name)
        ingredient_quality ==
            IF ingredient_item_data.allows_quality THEN act.recipe_quality ELSE 0
        ingredient_item_id == get_item_id(ingredient.name, ingredient_quality)
    IN  IF ingredient_item_id \notin item_ids
        THEN RaiseEffect("KeyError", ingredient_item_id)
        ELSE TermEffect(ingredient_item_id,
                        Term("ingredient", act.key, -1, ingredient.amount, DecInt(1),
                             DecInt(1), recipe_data.energy_required))

\* lines 324-335: one ingredient of one activity
IngredientEffect(obj, item_ids, act, recipe_data, ingredient) ==
    IF ~HasKey(obj.items, ingredient.name)
    THEN RaiseEffect("KeyError", ingredient.name)
    ELSE
    LET ingredient_item_data == Lookup(obj.items, ingredient.name)
        ingredient_quality ==
            IF ingredient_item_data.allows_quality THEN act.recipe_quality ELSE 0
        ingredient_item_id == get_item_id(ingredient.name, ingredient_quality)
    IN  IF ingredient_item_id \notin item_ids
        THEN RaiseEffect("KeyError", ingredient_item_id)
        ELSE TermEffect(ingredient_item_id,
                        Term("ingredient", act.key, -1, ingredient.amount, act.speed_factor,
                             DecInt(1), recipe_data.energy_required))

\* the kernel's factor is taken for every result, quality-eligible or not
ResultQualityEffectAlwaysKernel(obj, item_ids, act, recipe_data, result_data, result_item_data, result_quality) ==
    LET result_item_id == get_item_id(result_data.name, result_quality)
        expected_amount == calculate_expected_amount(result_data, act.prod_bonus)
        quality_percent ==
            QualityPercent(obj, act.num_qual_modules, act.num_effective_speed_modules)
        kernel ==
            calculate_quality_probability_factor(act.recipe_quality, result_quality,
                                                 obj.max_quality_unlocked, quality_percent)
    IN  IF kernel.tag = "raise"
        THEN RaiseEffect(kernel.exc, kernel.msg)
        ELSE IF result_item_id \notin item_ids
        THEN RaiseEffect("KeyError", result_item_id)
        ELSE TermEffect(result_item_id,
                [Term("result", act.key, 1, expected_amount, act.speed_factor,
                      kernel.value, recipe_data.energy_required)
                 EXCEPT !.kernel = TRUE, !.quality_percent = quality_percent])

\* lines 343-357: one result quality of one result of one activity
ResultQualityEffect(obj, item_ids, act, recipe_data, result_data, result_item_data, result_quality) ==
    LET result_item_id == get_item_id(result_data.name, result_quality)
        expected_amount == calculate_expected_amount(result_data, act.prod_bonus)
        quality_percent ==
            QualityPercent(obj, act.num_qual_modules, act.num_effective_speed_modules)
        kernel ==
            calculate_quality_probability_factor(act.recipe_quality, result_quality,
                                                 obj.max_quality_unlocked, quality_percent)
    IN  IF result_item_data.allows_quality /\ kernel.tag = "raise"
        THEN RaiseEffect(kernel.exc, kernel.msg)
        ELSE IF result_item_id \notin item_ids
        THEN RaiseEffect("KeyError", result_item_id)
        ELSE TermEffect(result_item_id,
                [Term("result", act.key, 1, expected_amount, act.speed_factor,
                      IF result_item_data.allows_quality THEN kernel.value ELSE DecInt(1),
                      recipe_data.energy_required)
                 EXCEPT !.kernel = result_item_data.allows_quality,
                        !.quality_percent =
                            IF result_item_data.allows_quality THEN quality_percent ELSE DecInt(0)])

\* a result that is no item of the catalog is passed over
ResultEffectsSkipUnknown(obj, item_ids, act, recipe_data, result_data) ==
    IF ~HasKey(obj.items, result_data.name)
    THEN <<>>
    ELSE
    LET result_item_data == Lookup(obj.items, result_data.name)
        result_qualities ==
            IF result_item_data.allows_quality
            THEN SelectSeq(result_item_data.qualities, LAMBDA quality : quality >= act.recipe_quality)
            ELSE result_item_data.qualities
    IN  [j \in 1..Len(result_qualities) |->
            ResultQualityEffect(obj, item_ids, act, recipe_data, result_data, result_item_data,
                                result_qualities[j])]

\* lines 337-357: one result of one activity
ResultEffects(obj, item_ids, act, recipe_data, result_data) ==
    IF ~HasKey(obj.items, result_data.name)
    THEN <<RaiseEffect("KeyError", result_data.name)>>
    ELSE
    LET result_item_data == Lookup(obj.items, result_data.name)
        result_qualities ==
            IF result_item_data.allows_quality
            THEN SelectSeq(result_item_data.qualities, LAMBDA quality : quality >= act.recipe_quality)
            ELSE result_item_data.qualities
    IN  [j \in 1..Len(result_qualities) |->
            ResultQualityEffect(obj, item_ids, act, recipe_data, result_data, result_item_data,
                                result_qualities[j])]

RECURSIVE AllResultEffects(_, _, _, _, _)
AllResultEffects(obj, item_ids, act, recipe_data, i) ==
    IF i > Len(recipe_data.results) THEN <<>>
    ELSE ResultEffects(obj, item_ids, act, recipe_data, recipe_data.results[i])
         \o AllResultEffects(obj, item_ids, act, recipe_data, i + 1)

\* lines 302-357: one iteration of the loop
ActivityEffects(obj, item_ids, act, recipe_data) ==
    <<VarEffect(act)>>
    \o [i \in 1..Len(recipe_data.ingredients) |->
            IngredientEffect(obj, item_ids, act, recipe_data, recipe_data.ingredients[i])]
    \o AllResultEffects(obj, item_ids, act, recipe_data, 1)

\* the t-th element (from 0) of
\* itertools.product(recipe_qualities, num_possible_qual_modules, possible_num_beaconed_speed_modules)
ProductActivity(obj, recipe_data, crafting_machine_data, t) ==
    LET slots == crafting_machine_data.module_slots + 1
        beacons == obj.possible_num_beaconed_speed_modules
    IN  Activity(obj, recipe_data, crafting_machine_data,
                 recipe_data.qualities[(t \div (slots * Len(beacons))) + 1],
                 (t \div Len(beacons)) % slots,
                 beacons[(t % Len(beacons)) + 1])

\* range(module_slots) in place of range(module_slots + 1)
ProductSizeShort(obj, recipe_data, crafting_machine_data) ==
    IF crafting_machine_data.module_slots <= 0 THEN 0
    ELSE Len(recipe_data.qualities) * crafting_machine_data.module_slots
         * Len(obj.possible_num_beaconed_speed_modules)

ProductSize(obj, recipe_data, crafting_machine_data) ==
    IF crafting_machine_data.module_slots + 1 <= 0 THEN 0
    ELSE Len(recipe_data.qualities) * (crafting_machine_data.module_slots + 1)
         * Len(obj.possible_num_beaconed_speed_modules)

\* the effects of iterations lo..hi, in order
RECURSIVE LoopEffects(_, _, _, _, _, _)
LoopEffects(obj, item_ids, recipe_data, crafting_machine_data, lo, hi) ==
    IF lo > hi THEN <<>>
    ELSE IF lo = hi
    THEN ActivityEffects(obj, item_ids,
                         ProductActivity(obj, recipe_data, crafting_machine_data, lo), recipe_data)
    ELSE LoopEffects(obj, item_ids, recipe_data, crafting_machine_data, lo, (lo + hi) \div 2)
         \o LoopEffects(obj, item_ids, recipe_data, crafting_machine_data, (lo + hi) \div 2 + 1, hi)

\* the effects that happen: those before the first exception
Happened(effects) ==
    IF \E k \in 1..Len(effects) : effects[k].op = "raise"
    THEN SubSeq(effects, 1,
                (CHOOSE k \in 1..Len(effects) :
                    /\ effects[k].op = "raise"
                    /\ \A h \in 1..(k - 1) : effects[h].op # "raise") - 1)
    ELSE effects

FirstRaise(effects) ==
    effects[CHOOSE k \in 1..Len(effects) :
                /\ effects[k].op = "raise"
                /\ \A h \in 1..(k - 1) : effects[h].op # "raise"]

\* the activities whose variable was created
CreatedActivities(done) ==
    LET kept == SelectSeq(done, LAMBDA e : e.op = "var")
    IN  [i \in 1..Len(kept) |-> kept[i].act]

\* every activity counts as one module, whatever it holds
ModuleCountsUnit(acts) ==
    [i \in 1..Len(acts) |-> [coef |-> 1, var |-> acts[i].key]]

\* lines 320-321: num_modules * recipe_var for the activities with modules
ModuleCounts(acts) ==
    LET kept == SelectSeq(acts, LAMBDA a : a.num_modules > 0)
    IN  [i \in 1..Len(kept) |-> [coef |-> kept[i].num_modules, var |-> kept[i].key]]

\* the terms appended to solver_items[item_id]
AppendedTerms(done, item_id) ==
    LET kept == SelectSeq(done, LAMBDA e : e.op = "term" /\ e.item_id = item_id)
    IN  [i \in 1..Len(kept) |-> kept[i].term]

\* dict[rec.key] = rec for each rec of recs in order: a key already present
\* keeps its place and takes the last value, a new key is appended where it
\* first occurs
DictSetAll(dict, recs) ==
    LET keys == {recs[i].key : i \in 1..Len(recs)}
        old == {dict[i].key : i \in 1..Len(dict)}
        Last(k) ==
            recs[CHOOSE i \in 1..Len(recs) :
                    /\ recs[i].key = k
                    /\ \A j \in (i + 1)..Len(recs) : recs[j].key # k]
        firsts ==
            IF Cardinality(keys) = Len(recs) /\ keys \cap old = {}
            THEN recs
            ELSE LET idx == [i \in 1..Len(recs) |-> i]
                     kept == SelectSeq(idx, LAMBDA i :
                                /\ recs[i].key \notin old
                                /\ \A j \in 1..(i - 1) : recs[j].key # recs[i].key)
                 IN  [n \in 1..Len(kept) |-> Last(recs[kept[n]].key)]
    IN  [i \in 1..Len(dict) |-> IF dict[i].key \in keys THEN Last(dict[i].key) ELSE dict[i]]
        \o firsts

\* the LP after the effects `done` of one call of setup_recipe_var
ApplyEffects(l, done) ==
    LET acts == CreatedActivities(done)
    IN  [l EXCEPT
            !.solver_recipes = DictSetAll(@, acts),
            !.num_modules_var = @ \o ModuleCounts(acts),
            !.num_buildings_var =
                @ \o [i \in 1..Len(acts) |-> [coef |-> 1, var |-> acts[i].key]],
            !.solver_items =
                [n \in 1..Len(@) |->
                    [@[n] EXCEPT !.terms = @ \o AppendedTerms(done, l.solver_items[n].key)]]]

SetupRecipeVarEffects(l, effects) ==
    IF \E k \in 1..Len(effects) : effects[k].op = "raise"
    THEN Thrown(ApplyEffects(l, Happened(effects)), FirstRaise(effects).exc, FirstRaise(effects).msg)
    ELSE Ok(ApplyEffects(l, effects))

setup_recipe_var(l, obj, recipe_data, crafting_machine_data) ==
    SetupRecipeVarEffects(l,
        LoopEffects(obj, {l.solver_items[n].key : n \in 1..Len(l.solver_items)},
                    recipe_data, crafting_machine_data,
                    0, ProductSize(obj, recipe_data, crafting_machine_data) - 1))

-----------------------------------------------------------------------------
(* The loops of run() over the inputs, the outputs and the byproducts.     *)

\* lines 406-420
RECURSIVE InputVars(_, _, _)
InputVars(st, obj, i) ==
    IF st.exc # "" \/ i > Len(obj.inputs) THEN st
    ELSE
    LET input == obj.inputs[i]
        input_item_key == IF input.resource THEN get_resource_item_key(input.key) ELSE input.key
    IN  IF input.quality \notin DOMAIN QUALITY_LEVELS
        THEN Thrown(st.lp, "KeyError", input.quality)
        ELSE
        LET input_quality == QUALITY_LEVELS[input.quality]
            item_id == get_item_id(input_item_key, input_quality)
            input_id == get_input_id(item_id)
            registered == [st.lp EXCEPT !.solver_inputs = DictSet(@, [key |-> item_id, var |-> input_id])]
        IN  IF ~HasKey(st.lp.solver_items, item_id)
            THEN Thrown(registered, "KeyError", item_id)
            ELSE InputVars(
                    Ok([registered EXCEPT
                          !.solver_items =
                              AppendTerm(@, item_id,
                                         Term("input", input_id, 1, DecInt(1), DecInt(1), DecInt(1), DecInt(1))),
                          !.solver_costs = Append(@, [cost |-> input.cost, vars |-> <<[coef |-> 1, var |-> input_id]>>]),
                          !.solver_input_item_ids = Append(@, item_id)]),
                    obj, i + 1)

\* lines 424-431
RECURSIVE OutputTerms(_, _, _)
OutputTerms(st, obj, i) ==
    IF st.exc # "" \/ i > Len(obj.outputs) THEN st
    ELSE
    LET output == obj.outputs[i]
    IN  IF output.quality \notin DOMAIN QUALITY_LEVELS
        THEN Thrown(st.lp, "KeyError", output.quality)
        ELSE
        LET item_id == get_item_id(output.key, QUALITY_LEVELS[output.quality])
        IN  IF ~HasKey(st.lp.solver_items, item_id)
            THEN Thrown(st.lp, "KeyError", item_id)
            ELSE OutputTerms(
                    Ok([st.lp EXCEPT
                          !.solver_items =
                              AppendTerm(@, item_id,
                                         Term("output", "", -1, output.amount, DecInt(1), DecInt(1), DecInt(1))),
                          !.solver_output_item_ids = Append(@, item_id)]),
                    obj, i + 1)

\* a node given a sink although it is a declared output
ByproductUnlessInput(l, byproduct_item_id) ==
    ~InList(byproduct_item_id, l.solver_input_item_ids)

\* line 439
ByproductEligible(l, byproduct_item_id) ==
    /\ ~InList(byproduct_item_id, l.solver_input_item_ids)
    /\ ~InList(byproduct_item_id, l.solver_output_item_ids)

\* lines 437-444, for one item
RECURSIVE ByproductQualityVars(_, _, _)
ByproductQualityVars(l, item_data, j) ==
    IF j > Len(item_data.qualities) THEN l
    ELSE
    LET byproduct_item_id == get_item_id(item_data.key, item_data.qualities[j])
        byproduct_id == get_byproduct_id(byproduct_item_id)
    IN  IF ByproductEligible(l, byproduct_item_id)
        THEN ByproductQualityVars(
                [l EXCEPT !.solver_byproducts = DictSet(@, [key |-> byproduct_item_id, var |-> byproduct_id]),
                          !.solver_items =
                              AppendTerm(@, byproduct_item_id,
                                         Term("byproduct", byproduct_id, -1, DecInt(1), DecInt(1), DecInt(1), DecInt(1)))],
                item_data, j + 1)
        ELSE ByproductQualityVars(l, item_data, j + 1)

\* lines 434-444
RECURSIVE ByproductVars(_, _, _)
ByproductVars(l, obj, i) ==
    IF i > Len(obj.items) THEN l
    ELSE ByproductVars(ByproductQualityVars(l, obj.items[i], 1), obj, i + 1)

RECURSIVE SetupResources(_, _)
SetupResources(obj, i) ==
    IF i > Len(obj.resources) THEN obj
    ELSE SetupResources(setup_resource(obj, obj.resources[i]), i + 1)

RECURSIVE SetupMiningDrills(_, _)
SetupMiningDrills(obj, i) ==
    IF i > Len(obj.mining_drills) THEN obj
    ELSE SetupMiningDrills(setup_mining_drill(obj, obj.mining_drills[i]), i + 1)

RECURSIVE SetupItems(_, _, _)
SetupItems(solver_items, items, i) ==
    IF i > Len(items) THEN solver_items
    ELSE SetupItems(setup_item(solver_items, items[i]), items, i + 1)

-----------------------------------------------------------------------------
(* The program: LinearSolver(config) followed by run().                    *)

NoError == [exc |-> "", msg |-> "", at |-> ""]

\* lines 203-214
NewLP ==
    [solver_items |-> <<>>, solver_recipes |-> <<>>, solver_inputs |-> <<>>,
     solver_byproducts |-> <<>>, solver_outputs |-> <<>>,
     num_modules_var |-> <<>>, num_buildings_var |-> <<>>, solver_costs |-> <<>>,
     solver_input_item_ids |-> <<>>, solver_output_item_ids |-> <<>>,
     next_recipe |-> 1, constraints |-> <<>>, objective |-> <<>>, minimize |-> FALSE,
     status |-> "NOT_SOLVED",
     \* what run() does with the backend: calls of Solve(), lines printed, file written
     solves |-> 0, report |-> <<>>, export |-> [written |-> FALSE, name |-> "", rows |-> <<>>]]

SolverStatuses == {"OPTIMAL", "FEASIBLE", "INFEASIBLE", "UNBOUNDED", "ABNORMAL", "NOT_SOLVED"}

Init ==
    /\ \E scn \in Scenarios(MaxVaried) \cup OneStepScenarios :
          /\ config = MkConfig(scn)
          /\ data = Catalog(scn.data)
    /\ pc = "new"
    /\ err = NoError
    /\ self = <<>>
    /\ lp = NewLP
    /\ ks = 0 /\ kM = 0 /\ kq = Dec(0, 0) /\ kcalls = <<>>
    /\ mconf = <<>> /\ mX = <<>>

\* the part of the program that is running: the loop over the inputs starts when the
\* loop over the recipes is exhausted
Stage ==
    IF pc = "recipes" /\ lp.next_recipe > Len(self.recipes) THEN "inputs" ELSE pc

Fail(exc, msg) ==
    /\ pc' = "error"
    /\ err' = [exc |-> exc, msg |-> msg, at |-> Stage]

\* the step ended in state st: the program goes on at next_pc unless it raised
Finish(st, next_pc) ==
    /\ lp' = st.lp
    /\ IF st.exc # "" THEN Fail(st.exc, st.msg) ELSE pc' = next_pc /\ UNCHANGED err

Constructed(built) ==
    IF built.tag = "raise"
    THEN Fail(built.exc, built.msg) /\ UNCHANGED <<self, lp>>
    ELSE pc' = "constructed" /\ self' = built.obj /\ UNCHANGED <<err, lp>>

\* solver = LinearSolver(config=config)
Construct ==
    /\ pc = "new"
    /\ Constructed(LinearSolver_init(config, data))
    /\ UNCHANGED <<config, data, kvars, mvars>>

RunSetupWith(obj) ==
    /\ self' = obj
    /\ lp' = [lp EXCEPT !.num_modules_var = <<[coef |-> 1, var |-> "num-modules"]>>,
                        !.num_buildings_var = <<[coef |-> 1, var |-> "num-buildings"]>>,
                        !.solver_items = SetupItems(<<>>, obj.items, 1)]

\* run(), lines 384-395
RunSetup ==
    /\ pc = "constructed"
    /\ RunSetupWith(SetupMiningDrills(SetupResources(self, 1), 1))
    /\ pc' = "recipes"
    /\ UNCHANGED <<config, data, err, kvars, mvars>>

\* a recipe without a machine stops the build
RecipeStepNoSkip(l, obj, recipe_data) ==
    LET allowed == recipe_is_allowed(obj, recipe_data.key)
        crafting_machine == get_best_crafting_machine(obj, recipe_data)
        advanced == [l EXCEPT !.next_recipe = @ + 1]
        \* the loop moves on only when setup_recipe_var has returned
        done == setup_recipe_var(l, obj, recipe_data, crafting_machine.machine)
    IN  IF allowed.tag = "raise" THEN Thrown(l, allowed.exc, allowed.msg)
        ELSE IF ~allowed.value THEN Ok(advanced)
        ELSE IF crafting_machine.tag = "raise"
        THEN Thrown(l, crafting_machine.exc, crafting_machine.msg)
        ELSE IF crafting_machine.value = "None"
        THEN Thrown(l, "RuntimeError", "no crafting machine")
        ELSE IF done.exc # "" THEN done
        ELSE Ok([done.lp EXCEPT !.next_recipe = @ + 1])

\* lines 398-402: the body of the loop over self.recipes.values()
RecipeStep(l, obj, recipe_data) ==
    LET allowed == recipe_is_allowed(obj, recipe_data.key)
        crafting_machine == get_best_crafting_machine(obj, recipe_data)
        advanced == [l EXCEPT !.next_recipe = @ + 1]
        \* the loop moves on only when setup_recipe_var has returned
        done == setup_recipe_var(l, obj, recipe_data, crafting_machine.machine)
    IN  IF allowed.tag = "raise" THEN Thrown(l, allowed.exc, allowed.msg)
        ELSE IF ~allowed.value THEN Ok(advanced)
        ELSE IF crafting_machine.tag = "raise"
        THEN Thrown(l, crafting_machine.exc, crafting_machine.msg)
        ELSE IF crafting_machine.value = "None" THEN Ok(advanced)
        ELSE IF done.exc # "" THEN done
        ELSE Ok([done.lp EXCEPT !.next_recipe = @ + 1])

\* run(), lines 397-402: one iteration of the loop
SetupRecipe ==
    /\ pc = "recipes"
    /\ lp.next_recipe <= Len(self.recipes)
    /\ Finish(RecipeStep(lp, self, self.recipes[lp.next_recipe]), "recipes")
    /\ UNCHANGED <<config, data, self, kvars, mvars>>

\* run(), lines 404-420
DeclareInputs ==
    /\ pc = "recipes"
    /\ lp.next_recipe > Len(self.recipes)
    /\ Finish(InputVars(Ok(lp), self, 1), "outputs")
    /\ UNCHANGED <<config, data, self, kvars, mvars>>

\* run(), lines 422-431
DeclareOutputs ==
    /\ pc = "outputs"
    /\ Finish(OutputTerms(Ok(lp), self, 1), "byproducts")
    /\ UNCHANGED <<config, data, self, kvars, mvars>>

\* run(), lines 433-444
DeclareByproducts ==
    /\ pc = "byproducts"
    /\ lp' = IF Truthy(self.allow_byproducts) THEN ByproductVars(lp, self, 1) ELSE lp
    /\ pc' = "constraints"
    /\ UNCHANGED <<config, data, self, err, kvars, mvars>>

\* only the nodes with a term get a constraint
ConstraintsOfNonEmpty(solver_items) ==
    SelectSeq(solver_items, LAMBDA node : node.terms # <<>>)

\* lines 446-447: solver.Add(sum(solver_vars) == 0) for every entry of solver_items
Constraints(solver_items) == solver_items

\* run(), lines 446-451: one constraint per entry of solver_items, then the objective
EmitConstraints ==
    /\ pc = "constraints"
    /\ LET costs ==
              lp.solver_costs
              \o << [cost |-> self.module_cost, vars |-> lp.num_modules_var],
                    [cost |-> self.building_cost, vars |-> lp.num_buildings_var] >>
       IN  lp' = [lp EXCEPT !.constraints = Constraints(lp.solver_items),
                            !.solver_costs = costs,
                            !.objective = costs,
                            !.minimize = TRUE]
    /\ pc' = "solve"
    /\ UNCHANGED <<config, data, self, err, kvars, mvars>>

\* a print call: its text and the names it formats into the text
Line(text, names) == [text |-> text, names |-> names]

\* the names of the variables of a dict of variables
VarNames(dict) == [i \in 1..Len(dict) |-> dict[i].var]

\* lines 458-495: what run() prints after Solve().  The values the backend found
\* are not modelled: a section that prints the variables with a value above 1e-9
\* is one line naming the variables it reads.
Report(l, obj, status) ==
    IF status = "OPTIMAL"
    THEN << Line("Solution:", <<>>),
            Line("Objective value = {}", <<"objective">>),
            Line("Inputs used:", VarNames(l.solver_inputs)) >>
         \o (IF Truthy(obj.allow_byproducts)
             THEN <<Line("Byproducts:", VarNames(l.solver_byproducts))>> ELSE <<>>)
         \o << Line("Buildings used: {}", <<"num-buildings">>),
               Line("Modules used: {}", <<"num-modules">>),
               Line("Recipes used:", [i \in 1..Len(l.solver_recipes) |-> l.solver_recipes[i].key]) >>
         \o (IF obj.output_filename.set
             THEN <<Line("Writing output to: {}", <<obj.output_filename.name>>)>> ELSE <<>>)
    ELSE <<Line("The problem does not have an optimal solution.", <<>>)>>

\* lines 482-492: df.to_csv(self.output_filename), one row per activity with a value above 1e-9
Export(l, obj, status) ==
    IF status = "OPTIMAL" /\ obj.output_filename.set
    THEN [written |-> TRUE, name |-> obj.output_filename.name,
          rows |-> [i \in 1..Len(l.solver_recipes) |-> l.solver_recipes[i].key]]
    ELSE l.export

\* run(), lines 454-495: Solve() and the report; the backend's answer is any status
Solve ==
    /\ pc = "solve"
    /\ \E status \in SolverStatuses :
          lp' = [lp EXCEPT !.status = status,
                           !.solves = @ + 1,
                           !.report = <<Line("Solving...", <<>>)>> \o Report(lp, self, status),
                           !.export = Export(lp, self, status)]
    /\ pc' = "done"
    /\ UNCHANGED <<config, data, self, err, kvars, mvars>>

Next ==
    \/ Construct
    \/ RunSetup
    \/ SetupRecipe
    \/ DeclareInputs
    \/ DeclareOutputs
    \/ DeclareByproducts
    \/ EmitConstraints
    \/ Solve

Spec == Init /\ [][Next]_vars

-----------------------------------------------------------------------------
(* Kernel harness: for a fixed (starting_quality, max_quality_unlocked,    *)
(* quality_percent) the kernel is called once for every ending quality of  *)
(* KTiers, in increasing order.                                            *)

MinTier == 1   \* tiers tried by the harness run from -MinTier ...
OverTier == 1  \* ... to (number of quality names - 1) + OverTier

KTiers == (0 - MinTier)..(Len(QUALITY_NAMES) - 1 + OverTier)

\* quality_percent values tried: the table entries' range, the ends of [0, 1],
\* values in between, and one value on either side of [0, 1]
KPercents ==
    { Dec(0, 0), Dec(1, 2), Dec(13, 3), Dec(25, 3), Dec(5, 2), Dec(62, 3), Dec(1, 1),
      Dec(186, 3), Dec(25, 2), Dec(5, 1), Dec(999, 3), Dec(1, 0), Dec(-15, 3), Dec(12, 1) }

KInit ==
    /\ ks \in KTiers
    /\ kM \in KTiers
    /\ kq \in KPercents
    /\ kcalls = <<>>
    /\ config = MkConfig(RefScenario) /\ data = RefData
    /\ pc = "kernel" /\ err = NoError /\ self = <<>> /\ lp = NewLP
    /\ mconf = <<>> /\ mX = <<>>

KNextEnding == (0 - MinTier) + Len(kcalls)

KernelCall ==
    /\ KNextEnding \in KTiers
    /\ kcalls' = Append(kcalls,
                        <<KNextEnding, calculate_quality_probability_factor(ks, KNextEnding, kM, kq)>>)
    /\ UNCHANGED <<ks, kM, kq, svars, mvars>>

KNext == KernelCall

SpecKernel == KInit /\ [][KNext]_vars

-----------------------------------------------------------------------------
(* Matrix harness: the recipe matrices of the prototypes.  X[i][j] is the  *)
(* amount of tier j made by one craft of the recipe at tier i, tiers        *)
(* counted from starting_quality; the functions return the transpose.      *)

\* main.py, lines 56-61
NUM_CRAFTING_MODULES == 5

ASSEMBLER_PROD_BONUS == Dec(5, 1)

PROD_BONUS == Dec(25, 2)

QUALITY_PROBABILITY == Dec(62, 3)

NUM_QUALITIES == 5

\* 10 ** k for an integer k
TenTo(k) == IF k >= 0 THEN DecInt(10 ^ k) ELSE Dec(1, 0 - k)

Transpose(X, rows, cols) == [j \in 1..cols |-> [i \in 1..rows |-> X[i][j]]]

\* main.py, lines 65-66, for the recipe at tier i
MainQ(frac_quality, i) ==
    DecMul(DecMul(DecInt(NUM_CRAFTING_MODULES), QUALITY_PROBABILITY), frac_quality[i + 1])

MainP(frac_quality, i) ==
    DecAdd(DecAdd(DecInt(1),
                  DecMul(DecMul(DecInt(NUM_CRAFTING_MODULES), PROD_BONUS),
                         DecSub(DecInt(1), frac_quality[i + 1]))),
           ASSEMBLER_PROD_BONUS)

\* main.py, lines 68-80: X before it is transposed; of the assignments to one
\* entry the last one stands
MainX(frac_quality) ==
    [i1 \in 1..NUM_QUALITIES |-> [j1 \in 1..NUM_QUALITIES |->
        LET i == i1 - 1
            j == j1 - 1
        IN  IF i = NUM_QUALITIES - 1 /\ j = NUM_QUALITIES - 1
            THEN DecAdd(DecAdd(DecInt(1), DecMul(DecInt(NUM_CRAFTING_MODULES), PROD_BONUS)),
                        ASSEMBLER_PROD_BONUS)
            ELSE IF i <= NUM_QUALITIES - 2 /\ j = NUM_QUALITIES - 1
            THEN DecMul(DecMul(TenTo(i - NUM_QUALITIES + 2), MainQ(frac_quality, i)),
                        MainP(frac_quality, i))
            ELSE IF i <= NUM_QUALITIES - 3 /\ i + 1 <= j /\ j <= NUM_QUALITIES - 2
            THEN DecMul(DecMul(DecMul(Dec(9, 1), TenTo(i - j + 1)), MainQ(frac_quality, i)),
                        MainP(frac_quality, i))
            ELSE IF i <= NUM_QUALITIES - 2 /\ j = i
            THEN DecMul(DecSub(DecInt(1), MainQ(frac_quality, i)), MainP(frac_quality, i))
            ELSE DecInt(0)]]

\* main.py, initialize_recipe_matrix
initialize_recipe_matrix(frac_quality) ==
    Transpose(MainX(frac_quality), NUM_QUALITIES, NUM_QUALITIES)

\* one_step_matrix_solver.py: the attributes the constructors derive
num_quality_items_in_solver(obj) == obj.max_quality - obj.starting_quality + 1

num_quality_recipes_in_solver(obj) == obj.ending_quality - obj.starting_quality + 1

\* lines 89-91 and 197-199, for one entry of frac_quality
StepQ(obj, frac) == DecMul(DecMul(DecInt(obj.module_slots), obj.quality_module_probability), frac)

StepP(obj, frac) ==
    DecAdd(DecAdd(DecInt(1),
                  DecMul(DecMul(DecInt(obj.module_slots), obj.prod_module_bonus),
                         DecSub(DecInt(1), frac))),
           obj.additional_prod)

\* NoRecyclerSolver.initialize_recipe_matrix, lines 92-102: the vector X; of
\* the assignments to one entry the last one stands
NoRecyclerX(obj, frac_quality) ==
    LET n == num_quality_items_in_solver(obj)
        q == StepQ(obj, frac_quality)
        p == StepP(obj, frac_quality)
    IN  [j1 \in 1..n |->
            LET j == j1 - 1
            IN  IF j = n - 1 THEN DecMul(DecMul(TenTo(0 - n + 2), q), p)
                ELSE IF j <= n - 2
                THEN DecMul(DecMul(DecMul(Dec(9, 1), TenTo(0 - j + 1)), q), p)
                ELSE IF j = 0 THEN DecMul(DecSub(DecInt(1), q), p)
                ELSE DecInt(0)]

\* X.reshape((n, 1))
NoRecyclerSolver_initialize_recipe_matrix(obj, frac_quality) ==
    [j1 \in 1..num_quality_items_in_solver(obj) |-> <<NoRecyclerX(obj, frac_quality)[j1]>>]

\* RecyclerSolver.initialize_recipe_matrix, lines 200-216: X before it is transposed
RecyclerX(obj, frac_quality) ==
    LET n == num_quality_items_in_solver(obj)
        r == num_quality_recipes_in_solver(obj)
    IN  [i1 \in 1..r |-> [j1 \in 1..n |->
            LET i == i1 - 1
                j == j1 - 1
            IN  IF i = r - 1 /\ j = r - 1
                THEN IF obj.disable_prod THEN DecAdd(DecInt(1), obj.additional_prod)
                     ELSE DecAdd(DecAdd(DecInt(1),
                                        DecMul(DecInt(obj.module_slots), obj.prod_module_bonus)),
                                 obj.additional_prod)
                ELSE IF i <= r - 2 /\ j = n - 1
                THEN DecMul(DecMul(TenTo(i - n + 2), StepQ(obj, frac_quality[i + 1])),
                            StepP(obj, frac_quality[i + 1]))
                ELSE IF i <= r - 2 /\ i + 1 <= j /\ j <= n - 2
                THEN DecMul(DecMul(DecMul(Dec(9, 1), TenTo(i - j + 1)),
                                   StepQ(obj, frac_quality[i + 1])),
                            StepP(obj, frac_quality[i + 1]))
                ELSE IF i <= r - 2 /\ j = i
                THEN DecMul(DecSub(DecInt(1), StepQ(obj, frac_quality[i + 1])),
                            StepP(obj, frac_quality[i + 1]))
                ELSE DecInt(0)]]

RecyclerSolver_initialize_recipe_matrix(obj, frac_quality) ==
    Transpose(RecyclerX(obj, frac_quality), num_quality_recipes_in_solver(obj),
              num_quality_items_in_solver(obj))

\* the frac_quality vectors tried: one entry for each recipe but the last
MFracs ==
    { <<Dec(2, 1), Dec(2, 1), Dec(2, 1), Dec(2, 1)>>,
      <<DecInt(1), Dec(6, 1), Dec(4, 1), DecInt(0)>>,
      <<Dec(4, 1), DecInt(1), DecInt(0), Dec(8, 1)>> }

\* the lowest starting qualities tried
MStarts == 0..1

MInit ==
    /\ \E s \in MStarts : \E m \in s..(Len(QUALITY_NAMES) - 1) : \E e \in s..m :
       \E f \in MFracs : \E d \in BOOLEAN :
          mconf = [starting_quality |-> s, ending_quality |-> e, max_quality |-> m,
                   module_slots |-> NUM_CRAFTING_MODULES,
                   quality_module_probability |-> QUALITY_PROBABILITY,
                   prod_module_bonus |-> PROD_BONUS,
                   additional_prod |-> ASSEMBLER_PROD_BONUS,
                   disable_prod |-> d,
                   frac_quality |-> f]
    /\ mX = [main |-> <<>>, norecycler |-> <<>>, recycler |-> <<>>]
    /\ ks = 0 /\ kM = 0 /\ kq = Dec(0, 0) /\ kcalls = <<>>
    /\ config = MkConfig(RefScenario) /\ data = RefData
    /\ pc = "matrix" /\ err = NoError /\ self = <<>> /\ lp = NewLP

\* main.py: X = initialize_recipe_matrix(frac_quality)
MainMatrix ==
    /\ pc = "matrix" /\ mX.main = <<>>
    /\ mX' = [mX EXCEPT !.main = initialize_recipe_matrix(mconf.frac_quality)]
    /\ UNCHANGED <<mconf, kvars, svars>>

\* NoRecyclerSolver.solve: X = self.initialize_recipe_matrix(frac_quality), a scalar
NoRecyclerMatrix ==
    /\ pc = "matrix" /\ mX.norecycler = <<>>
    /\ mX' = [mX EXCEPT !.norecycler =
                  NoRecyclerSolver_initialize_recipe_matrix(mconf, mconf.frac_quality[1])]
    /\ UNCHANGED <<mconf, kvars, svars>>

\* RecyclerSolver.solve: X = self.initialize_recipe_matrix(frac_quality)
RecyclerMatrix ==
    /\ pc = "matrix" /\ mX.recycler = <<>>
    /\ mX' = [mX EXCEPT !.recycler =
                  RecyclerSolver_initialize_recipe_matrix(mconf, mconf.frac_quality)]
    /\ UNCHANGED <<mconf, kvars, svars>>

MNext == MainMatrix \/ NoRecyclerMatrix \/ RecyclerMatrix

SpecMatrix == MInit /\ [][MNext]_vars

-----------------------------------------------------------------------------
(* Properties of the kernel, over the calls the harness has made.          *)

MaxTier == Len(QUALITY_NAMES) - 1

KCalled(e) == e \in KTiers /\ e - (0 - MinTier) + 1 <= Len(kcalls)

KOutcome(e) == kcalls[e - (0 - MinTier) + 1][2]

KRowDone == \A e \in ks..kM : KCalled(e)

RECURSIVE KRowSum(_)
KRowSum(e) == IF e > kM THEN Dec(0, 0) ELSE DecAdd(KOutcome(e).value, KRowSum(e + 1))

KUnitPercent == DecLeq(Dec(0, 0), kq) /\ DecLeq(kq, DecInt(1))

C2_Expected(s, e, M, q) ==
    IF e = s /\ s = M THEN Dec(1, 0)
    ELSE IF e = s THEN DecSub(Dec(1, 0), q)
    ELSE IF e < M THEN DecNorm(Dec(q.m * 9, q.x + (e - s)))
    ELSE DecNorm(Dec(q.m, q.x + (e - s - 1)))

C2_Values ==
    \A i \in 1..Len(kcalls) :
        LET e == kcalls[i][1]
            out == kcalls[i][2]
        IN  (0 <= ks /\ ks <= e /\ e <= kM)
                => /\ out.tag = "return"
                   /\ out.exc # "RuntimeError"
                   /\ out.value = C2_Expected(ks, e, kM, kq)

\* QualityFactor(0,2,4,0.1) = 0.009 and QualityFactor(0,4,4,q) = q * 0.001
C2_Witness ==
    /\ ks = 0 /\ kM = 4 /\ kq = Dec(1, 1) /\ KRowDone
    /\ KOutcome(0).value = Dec(9, 1)
    /\ KOutcome(2).value = Dec(9, 3)
    /\ KOutcome(4).value = Dec(1, 4)

\* C3 as stated: the call fails whenever s > M, e > M or e < s, and returns a
\* value only when 0 <= s <= e <= M.
C3_AsStated ==
    \A i \in 1..Len(kcalls) :
        LET e == kcalls[i][1]
            out == kcalls[i][2]
        IN  /\ (ks > kM \/ e > kM \/ e < ks) => out.tag = "raise"
            /\ out.tag = "return" => (0 <= ks /\ ks <= e /\ e <= kM)

\* C3 amended: the call raises ValueError whenever s > M, e > M or e < s, and
\* returns a value exactly when s <= e <= M; a negative s is not rejected.
C3_Preconditions ==
    \A i \in 1..Len(kcalls) :
        LET e == kcalls[i][1]
            out == kcalls[i][2]
        IN  /\ (ks > kM \/ e > kM \/ e < ks) => (out.tag = "raise" /\ out.exc = "ValueError")
            /\ out.tag = "return" <=> (ks <= e /\ e <= kM)

C3_Witness ==
    /\ ks = 1 /\ kM = 3 /\ KCalled(4)
    /\ KOutcome(0).tag = "raise"
    /\ KOutcome(1).tag = "return"
    /\ KOutcome(3).tag = "return"
    /\ KOutcome(4).tag = "raise"

-----------------------------------------------------------------------------
(* Properties of LinearSolver(config) and run().                           *)

AfterInputs == {"outputs", "byproducts", "constraints", "solve", "done"}

NodeIds == {lp.solver_items[n].key : n \in 1..Len(lp.solver_items)}

\* the terms of kind `kind` in the n-th node
TermsOfKind(n, kind) == SelectSeq(lp.solver_items[n].terms, LAMBDA t : t.kind = kind)

\* the coefficient of the term is c, an integer
HasCoefficient(t, c) ==
    DecEq(DecMul(DecInt(t.sign), DecMul(DecMul(t.amount, t.speed), t.factor)),
          DecMul(DecInt(c), t.energy))

BothListsSet ==
    \/ config.allowed_recipes.set /\ config.disallowed_recipes.set
    \/ config.allowed_crafting_machines.set /\ config.disallowed_crafting_machines.set

\* C4: whenever both the allow list and the deny list of recipes, or of
\* machines, are set, the program ends in an error raised before any activity
\* variable or constraint is created and before the LP backend is invoked.
C4_AsStated ==
    BothListsSet =>
        /\ lp.solver_recipes = <<>>
        /\ lp.constraints = <<>>
        /\ pc # "done"

KnownIngredients(recipe_data) ==
    \A i \in 1..Len(recipe_data.ingredients) : HasKey(data.items, recipe_data.ingredients[i].name)

\* the constructor got as far as the loop over the recipes
NormalizationReached ==
    /\ pc # "new"
    /\ ModuleTableError(config) = ""
    /\ config.max_quality_unlocked \in DOMAIN QUALITY_LEVELS

\* C5: the normalization of the catalog in the constructor never raises; it
\* removes every recipe with one or more ingredients that are no catalog item
\* and keeps every recipe whose ingredients are all known.
C5_AsStated ==
    NormalizationReached =>
        /\ ~(pc = "error" /\ err.at = "new")
        /\ pc = "constructed" =>
              {self.recipes[i].key : i \in 1..Len(self.recipes)}
                  = {data.recipes[i].key : i \in {j \in 1..Len(data.recipes) : KnownIngredients(data.recipes[j])}}

\* the inputs declared with resource: true that name a resource of the catalog
ResourceInputs ==
    {i \in 1..Len(config.inputs) :
        config.inputs[i].resource /\ HasKey(data.resources, config.inputs[i].key)}

\* the i-th iteration of the loop over the inputs has ended, by completing or by raising
InputReached(i) ==
    \/ pc \in AfterInputs
    \/ pc = "error" /\ err.at = "outputs"
    \/ pc = "error" /\ err.at = "inputs" /\ Len(lp.solver_costs) >= i - 1

\* variable var has coefficient +1 in the node and occurs in no other node
SupplyAt(node, var) ==
    \A n \in 1..Len(lp.solver_items) :
        LET supplies == SelectSeq(lp.solver_items[n].terms, LAMBDA t : t.var = var)
        IN  IF lp.solver_items[n].key = node
            THEN Len(supplies) = 1 /\ supplies[1].kind = "input" /\ HasCoefficient(supplies[1], 1)
            ELSE supplies = <<>>

SupplyNowhere(var) ==
    \A n \in 1..Len(lp.solver_items) :
        \A k \in 1..Len(lp.solver_items[n].terms) : lp.solver_items[n].terms[k].var # var

\* C6 as stated: an input with resource: true is attached to the node of
\* '<key>-resource' at tier 0 whatever quality name it carries, and its supply
\* variable has coefficient +1 in that node only.
C6_AsStated ==
    \A i \in ResourceInputs :
        InputReached(i) =>
            /\ "normal__" \o config.inputs[i].key \o "-resource" \in NodeIds
            /\ SupplyAt("normal__" \o config.inputs[i].key \o "-resource",
                        "input__normal__" \o config.inputs[i].key \o "-resource")

\* C6 amended: an input with resource: true is attached to '<key>-resource' at
\* the tier its quality names. With quality 'normal' its supply variable has
\* coefficient +1 in the node 'normal__<key>-resource' and occurs nowhere
\* else; with any other quality run() stops at that input with KeyError, the
\* supply variable in no node, and never gets past the inputs.
C6_ResourceInput ==
    \A i \in ResourceInputs :
        IF config.inputs[i].quality = "normal"
        THEN InputReached(i) =>
                /\ "normal__" \o config.inputs[i].key \o "-resource" \in NodeIds
                /\ SupplyAt("normal__" \o config.inputs[i].key \o "-resource",
                            "input__normal__" \o config.inputs[i].key \o "-resource")
        ELSE /\ pc \notin AfterInputs
             /\ InputReached(i) =>
                   /\ pc = "error" /\ err.at = "inputs" /\ err.exc = "KeyError"
                   /\ config.inputs[i].quality \o "__" \o config.inputs[i].key \o "-resource" \notin NodeIds
                   /\ SupplyNowhere("input__" \o config.inputs[i].quality \o "__"
                                    \o config.inputs[i].key \o "-resource")

C6_Witness ==
    /\ pc = "done"
    /\ config.inputs = <<Input("ore", "normal", TRUE, DecInt(1))>>
    /\ ResourceInputs = {1}
    /\ SupplyAt("normal__ore-resource", "input__normal__ore-resource")

DeclaredInputNodes ==
    {get_item_id(IF config.inputs[i].resource THEN config.inputs[i].key \o "-resource"
                 ELSE config.inputs[i].key,
                 QUALITY_LEVELS[config.inputs[i].quality]) : i \in 1..Len(config.inputs)}

DeclaredOutputNodes ==
    {get_item_id(config.outputs[i].key, QUALITY_LEVELS[config.outputs[i].quality])
        : i \in 1..Len(config.outputs)}

\* the variable enters the objective
Costed(var) ==
    \E c \in 1..Len(lp.solver_costs) :
        \E v \in 1..Len(lp.solver_costs[c].vars) : lp.solver_costs[c].vars[v].var = var

\* C7: once run() has declared the byproducts, a node that is neither a
\* declared input nor a declared output has, when allow_byproducts is true,
\* exactly one sink variable, with coefficient -1 and no cost; every other
\* node, and every node when allow_byproducts is false or absent, has none.
C7_Sinks ==
    pc \in {"constraints", "solve", "done"} =>
        /\ \A n \in 1..Len(lp.solver_items) :
              LET id == lp.solver_items[n].key
                  sinks == SelectSeq(lp.solver_items[n].terms,
                                     LAMBDA t : t.kind = "byproduct" \/ t.var = "byproduct__" \o id)
              IN  IF config.allow_byproducts = "true"
                     /\ id \notin DeclaredInputNodes /\ id \notin DeclaredOutputNodes
                  THEN /\ Len(sinks) = 1
                       /\ sinks[1].kind = "byproduct"
                       /\ sinks[1].var = "byproduct__" \o id
                       /\ HasCoefficient(sinks[1], 0 - 1)
                       /\ ~Costed(sinks[1].var)
                       /\ HasKey(lp.solver_byproducts, id)
                       /\ Lookup(lp.solver_byproducts, id).var = "byproduct__" \o id
                  ELSE /\ sinks = <<>>
                       /\ ~HasKey(lp.solver_byproducts, id)
        /\ \A b \in 1..Len(lp.solver_byproducts) : lp.solver_byproducts[b].key \in NodeIds

C7_Witness ==
    /\ pc = "done"
    /\ config.allow_byproducts = "true"
    /\ HasKey(lp.solver_byproducts, "normal__water")
    /\ HasKey(lp.solver_byproducts, "rare__plate")
    /\ ~HasKey(lp.solver_byproducts, "normal__ore-resource")
    /\ ~HasKey(lp.solver_byproducts, "legendary__plate")
    /\ Len(TermsOfKind(1, "byproduct")) = 1

Clamp01(a) ==
    IF DecLess(a, DecInt(0)) THEN DecInt(0)
    ELSE IF DecLess(DecInt(1), a) THEN DecInt(1)
    ELSE a

\* C8: the quality probability given to the kernel for a result of an activity
\* is n_qual * quality_module_probability - effective beacon modules *
\* quality_penalty_per_speed_module clamped into [0, 1]: never negative, never
\* above 1.
C8_AsStated ==
    \A n \in 1..Len(lp.solver_items) :
        \A k \in 1..Len(lp.solver_items[n].terms) :
            LET t == lp.solver_items[n].terms[k]
                act == Lookup(lp.solver_recipes, t.var)
            IN  t.kernel =>
                    /\ DecLeq(DecInt(0), t.quality_percent)
                    /\ DecLeq(t.quality_percent, DecInt(1))
                    /\ DecEq(t.quality_percent,
                             Clamp01(DecSub(DecMul(DecInt(act.num_qual_modules),
                                                   self.quality_module_probability),
                                            DecMul(act.num_effective_speed_modules,
                                                   self.quality_penalty_per_speed_module))))

\* C9: building_quality scales the machines' crafting speed: the solver built
\* from a config with another building_quality than 'normal' differs from the
\* one built from the same config with 'normal', and no activity has the
\* speed factor it has with 'normal'.
C9_AsStated ==
    config.building_quality # "normal" =>
        /\ pc = "constructed" =>
              self # LinearSolver_init([config EXCEPT !.building_quality = "normal"], data).obj
        /\ \A a \in 1..Len(lp.solver_recipes) :
              LET act == lp.solver_recipes[a]
              IN  ~DecEq(act.speed_factor,
                         SpeedFactor(self,
                                     Lookup(self.crafting_machines, act.crafting_machine_key).crafting_speed,
                                     act.num_qual_modules, act.num_prod_modules,
                                     act.num_effective_speed_modules))

ModuleTiers == 1..3

\* C10: the constructor accepts a module tier only in {1, 2, 3} and a module
\* quality only among the five names, and then selects row tier - 1 of the
\* table at the quality's column; with any other tier or quality name it
\* fails.
C10_AsStated ==
    (pc # "new" /\ config.max_quality_unlocked \in DOMAIN QUALITY_LEVELS) =>
        IF /\ config.quality_module_tier \in ModuleTiers
           /\ config.prod_module_tier \in ModuleTiers
           /\ config.speed_module_tier \in ModuleTiers
           /\ config.quality_module_quality \in DOMAIN QUALITY_LEVELS
           /\ config.prod_module_quality \in DOMAIN QUALITY_LEVELS
           /\ config.speed_module_quality \in DOMAIN QUALITY_LEVELS
        THEN pc = "constructed" =>
                /\ self.quality_module_probability
                    = QUALITY_PROBABILITIES[config.quality_module_tier][QUALITY_LEVELS[config.quality_module_quality] + 1]
                /\ self.prod_module_bonus
                    = PROD_BONUSES[config.prod_module_tier][QUALITY_LEVELS[config.prod_module_quality] + 1]
                /\ self.speed_module_bonus
                    = SPEED_BONUSES[config.speed_module_tier][QUALITY_LEVELS[config.speed_module_quality] + 1]
        ELSE pc = "error" /\ err.at = "new"

-----------------------------------------------------------------------------
(* Machine selection.                                                      *)

\* run() has set up the resources and the mining drills: self.recipes and
\* self.crafting_machines are the ones the loop over the recipes uses
RunStarted == pc \notin {"new", "constructed", "kernel"} /\ ~(pc = "error" /\ err.at = "new")

\* the machines of self.crafting_machines (by position) that are permitted and
\* support the category of the recipe
CandidateMachines(recipe_data) ==
    {i \in 1..Len(self.crafting_machines) :
        /\ crafting_machine_is_allowed(self, self.crafting_machines[i].key).tag = "return"
        /\ crafting_machine_is_allowed(self, self.crafting_machines[i].key).value
        /\ recipe_data.category \in self.crafting_machines[i].crafting_categories}

\* machine m is at least as good as machine c in slots, productivity and speed
AtLeastAsGood(m, c) ==
    /\ m.module_slots >= c.module_slots
    /\ DecLeq(c.prod_bonus, m.prod_bonus)
    /\ DecLeq(c.crafting_speed, m.crafting_speed)

\* position i is a candidate that is at least as good as every candidate and
\* the only candidate that is
SoleDominant(recipe_data, i) ==
    /\ i \in CandidateMachines(recipe_data)
    /\ \A j \in CandidateMachines(recipe_data) :
          /\ AtLeastAsGood(self.crafting_machines[i], self.crafting_machines[j])
          /\ j # i => ~AtLeastAsGood(self.crafting_machines[j], self.crafting_machines[i])

\* C11: whenever get_best_crafting_machine returns a machine for a recipe, the
\* machine is permitted, supports the recipe's category, has module_slots,
\* prod_bonus and crafting_speed each at least those of every other permitted
\* machine of the category, and is the only one attaining the three maxima;
\* every activity run() created is on such a machine.
C11_BestMachine ==
    RunStarted =>
        /\ \A r \in 1..Len(self.recipes) :
              LET chosen == get_best_crafting_machine(self, self.recipes[r])
              IN  (chosen.tag = "return" /\ chosen.value = "machine") =>
                      \E i \in 1..Len(self.crafting_machines) :
                          /\ self.crafting_machines[i] = chosen.machine
                          /\ SoleDominant(self.recipes[r], i)
        /\ \A a \in 1..Len(lp.solver_recipes) :
              \E i \in 1..Len(self.crafting_machines) :
                  /\ self.crafting_machines[i].key = lp.solver_recipes[a].crafting_machine_key
                  /\ SoleDominant(Lookup(self.recipes, lp.solver_recipes[a].recipe_key), i)

\* the furnace is chosen for smelting over the stone furnace, which is worse in
\* every respect
C11_Witness ==
    /\ pc = "done"
    /\ Len(self.crafting_machines) = 4
    /\ self.crafting_machines[1].key = "furnace-s"
    /\ CandidateMachines(Lookup(self.recipes, "smelt")) = {1, 2}
    /\ \E a \in 1..Len(lp.solver_recipes) :
          /\ lp.solver_recipes[a].recipe_key = "smelt"
          /\ lp.solver_recipes[a].crafting_machine_key = "furnace"
    /\ \A a \in 1..Len(lp.solver_recipes) : lp.solver_recipes[a].crafting_machine_key # "furnace-s"

MachineListsValid ==
    ~(self.allowed_crafting_machines.set /\ self.disallowed_crafting_machines.set)

RecipeListsValid == ~(self.allowed_recipes.set /\ self.disallowed_recipes.set)

ActivitiesOf(recipe_key) ==
    {a \in 1..Len(lp.solver_recipes) : lp.solver_recipes[a].recipe_key = recipe_key}

\* C12: for a recipe whose category no permitted machine supports (the machine
\* lists not both set), get_best_crafting_machine returns None and raises
\* nothing, the iteration of run() for the recipe only moves on to the next
\* recipe, and no activity variable of the recipe ever exists.
C12_NoMachineSkips ==
    (RunStarted /\ MachineListsValid) =>
        \A r \in 1..Len(self.recipes) :
            CandidateMachines(self.recipes[r]) = {} =>
                /\ get_best_crafting_machine(self, self.recipes[r]) = Return("None")
                /\ ActivitiesOf(self.recipes[r].key) = {}
                /\ (RecipeListsValid /\ lp.next_recipe = r) =>
                      /\ pc # "error"
                      /\ pc = "recipes" =>
                            RecipeStep(lp, self, self.recipes[r]) = Ok([lp EXCEPT !.next_recipe = r + 1])

\* the first recipe has no machine; the two after it got their activities
C12_Witness ==
    /\ pc = "done"
    /\ MachineListsValid
    /\ Len(self.recipes) = 4
    /\ self.recipes[1].key = "launch"
    /\ CandidateMachines(self.recipes[1]) = {}
    /\ ActivitiesOf("launch") = {}
    /\ ActivitiesOf("smelt") # {}
    /\ ActivitiesOf("wash") # {}

\* the candidates that attain the maximum module_slots, prod_bonus and
\* crafting_speed of the candidates simultaneously
TopMachines(recipe_data) ==
    {i \in CandidateMachines(recipe_data) :
        \A j \in CandidateMachines(recipe_data) :
            AtLeastAsGood(self.crafting_machines[i], self.crafting_machines[j])}

\* the recipe passes the recipe filter
RecipePermitted(recipe_data) ==
    /\ recipe_is_allowed(self, recipe_data.key).tag = "return"
    /\ recipe_is_allowed(self, recipe_data.key).value

\* C13: for a recipe with more than one permitted machine of its category
\* attaining the three maxima at once, get_best_crafting_machine raises
\* RuntimeError and returns no machine, no activity of the recipe is ever
\* created, and run() does not get past the recipe when the recipe is allowed.
C13_TieFails ==
    RunStarted =>
        \A r \in 1..Len(self.recipes) :
            Cardinality(TopMachines(self.recipes[r])) > 1 =>
                /\ get_best_crafting_machine(self, self.recipes[r]).tag = "raise"
                /\ get_best_crafting_machine(self, self.recipes[r]).exc = "RuntimeError"
                /\ ActivitiesOf(self.recipes[r].key) = {}
                /\ RecipePermitted(self.recipes[r]) =>
                      /\ lp.next_recipe <= r
                      /\ pc \in {"recipes", "error"}
                      /\ (pc = "error" /\ lp.next_recipe = r) =>
                            (err.exc = "RuntimeError" /\ err.at = "recipes")

\* two furnaces alike in slots, productivity and speed: run() stops at smelt
C13_Witness ==
    /\ pc = "error"
    /\ err.exc = "RuntimeError"
    /\ err.msg = "Unable to disambiguate best crafting machine"
    /\ Len(self.recipes) = 3
    /\ lp.next_recipe = 1
    /\ self.recipes[1].key = "smelt"
    /\ Cardinality(TopMachines(self.recipes[1])) = 2
    /\ lp.solver_recipes = <<>>

-----------------------------------------------------------------------------
(* The report of run().                                                    *)

\* the names of the variables of the LP: supplies, sinks, activities and counters
LPVariables ==
    {lp.solver_inputs[i].var : i \in 1..Len(lp.solver_inputs)}
    \cup {lp.solver_byproducts[i].var : i \in 1..Len(lp.solver_byproducts)}
    \cup {lp.solver_recipes[i].key : i \in 1..Len(lp.solver_recipes)}
    \cup {"num-buildings", "num-modules", "objective"}

\* C14: when Solve() returns a status other than OPTIMAL, run() prints a
\* diagnostic that names the status returned, prints no value of a supply, sink
\* or activity, writes no file even if output_filename is set, has called
\* Solve() once and leaves the constraints as they were emitted.
C14_AsStated ==
    (pc = "done" /\ lp.status # "OPTIMAL") =>
        /\ \E k \in 1..Len(lp.report) : InList(lp.status, lp.report[k].names)
        /\ \A k \in 1..Len(lp.report) :
              \A n \in 1..Len(lp.report[k].names) : lp.report[k].names[n] \notin LPVariables
        /\ ~lp.export.written
        /\ lp.solves = 1
        /\ lp.constraints = lp.solver_items

-----------------------------------------------------------------------------
(* Feasibility of the constraints emitted: sum(terms) == 0 for every node, *)
(* every variable >= 0.                                                    *)

\* the sign of the coefficient of a term
CoefSign(t) ==
    t.sign * DecSign(t.amount) * DecSign(t.speed) * DecSign(t.factor) * DecSign(t.energy)

\* the terms of the n-th constraint with a variable that is not known to be zero
LiveTerms(n, zero) ==
    {t \in {lp.constraints[n].terms[k] : k \in 1..Len(lp.constraints[n].terms)} :
        t.var # "" /\ t.var \notin zero /\ CoefSign(t) # 0}

LiveSigns(n, zero) == {CoefSign(t) : t \in LiveTerms(n, zero)}

\* the signs of the constants of the n-th constraint
ConstantSigns(n) ==
    {CoefSign(t) : t \in {u \in {lp.constraints[n].terms[k] : k \in 1..Len(lp.constraints[n].terms)} :
                            u.var = ""}} \ {0}

\* a constraint without constant whose live coefficients all have one sign forces
\* its live variables to zero
ZeroStep(zero) ==
    zero \cup UNION { {t.var : t \in LiveTerms(n, zero)} :
                        n \in {h \in 1..Len(lp.constraints) :
                                  ConstantSigns(h) = {} /\ Cardinality(LiveSigns(h, zero)) = 1} }

RECURSIVE ForcedZero(_)
ForcedZero(zero) == IF ZeroStep(zero) = zero THEN zero ELSE ForcedZero(ZeroStep(zero))

\* some constraint has a constant and, the forced zeros left out, only
\* coefficients of the sign of the constant: no assignment >= 0 satisfies it
ProvablyInfeasible ==
    \E n \in 1..Len(lp.constraints) :
        /\ ConstantSigns(n) # {}
        /\ Cardinality(ConstantSigns(n) \cup LiveSigns(n, ForcedZero({}))) = 1

\* scenario S2 of the one-step family: byproducts not allowed
IsS2 ==
    /\ config.data = "one-step"
    /\ config.allow_byproducts # "true"
    /\ config.inputs = <<Input("ore", "normal", FALSE, DecInt(1))>>
    /\ config.outputs = <<Output("plate", "legendary", DecInt(1))>>
    /\ config.max_quality_unlocked = "legendary"

\* C15: in scenario S2 (one recipe ore -> plate, no sinks, a supply of normal
\* ore, a demand of one legendary plate) the constraints run() emits have no
\* solution with all variables >= 0: the activities above tier 0 have no
\* ingredient, the activities at tier 0 have nowhere to put their normal
\* plates, and then nothing supplies the legendary plate.
C15_S2Infeasible ==
    (IsS2 /\ pc \in {"solve", "done"}) =>
        /\ ProvablyInfeasible
        /\ {lp.solver_recipes[a].key : a \in 1..Len(lp.solver_recipes)} \subseteq ForcedZero({})
        /\ lp.solver_byproducts = <<>>

C15_Witness ==
    /\ IsS2 /\ pc = "done"
    /\ config.allow_byproducts = "false"
    /\ Len(lp.solver_recipes) = 25
    /\ Len(lp.constraints) = 10
    /\ ProvablyInfeasible
    /\ "input__normal__ore" \in ForcedZero({})

-----------------------------------------------------------------------------
(* Coefficients.  A term keeps the factors of its coefficient              *)
(* sign * amount * speed * factor / energy; their product can exceed the   *)
(* integers of the checker, so products are compared in long arithmetic,   *)
(* a magnitude being the sequence of its base-1000 digits, lowest first.   *)

Abs(n) == IF n < 0 THEN 0 - n ELSE n

RECURSIVE ToLimbs(_)
ToLimbs(n) == IF n < 1000 THEN <<n>> ELSE <<n % 1000>> \o ToLimbs(n \div 1000)

LimbAt(a, i) == IF i >= 1 /\ i <= Len(a) THEN a[i] ELSE 0

RECURSIVE LimbConv(_, _, _, _)
\* the sum of a[i] * b[k + 1 - i] for i in from..Len(a)
LimbConv(a, b, k, from) ==
    IF from > Len(a) THEN 0
    ELSE a[from] * LimbAt(b, k + 1 - from) + LimbConv(a, b, k, from + 1)

RECURSIVE LimbCarry(_, _)
LimbCarry(c, carry) ==
    IF c = <<>> THEN (IF carry = 0 THEN <<>> ELSE ToLimbs(carry))
    ELSE <<(c[1] + carry) % 1000>> \o LimbCarry(Tail(c), (c[1] + carry) \div 1000)

LimbMul(a, b) == LimbCarry([k \in 1..(Len(a) + Len(b)) |-> LimbConv(a, b, k, 1)], 0)

RECURSIVE LimbCmpFrom(_, _, _)
\* -1, 0 or 1 as a < b, a = b or a > b, comparing the digits i, i-1, ..., 1
LimbCmpFrom(a, b, i) ==
    IF i = 0 THEN 0
    ELSE IF LimbAt(a, i) < LimbAt(b, i) THEN 0 - 1
    ELSE IF LimbAt(a, i) > LimbAt(b, i) THEN 1
    ELSE LimbCmpFrom(a, b, i - 1)

LimbCmp(a, b) == LimbCmpFrom(a, b, DecMax(Len(a), Len(b)))

\* a * 10^k
LimbShift(a, k) == LimbMul(a, [i \in 1..(k \div 3 + 1) |-> IF i = k \div 3 + 1 THEN Pow10(k % 3) ELSE 0])

RECURSIVE ProductOf(_)
\* the product of a sequence of decimals: sign, magnitude and exponent
ProductOf(ds) ==
    IF ds = <<>> THEN [sign |-> 1, mag |-> <<1>>, x |-> 0]
    ELSE LET rest == ProductOf(Tail(ds))
         IN  [sign |-> DecSign(Head(ds)) * rest.sign,
              mag |-> LimbMul(ToLimbs(Abs(Head(ds).m)), rest.mag),
              x |-> Head(ds).x + rest.x]

\* p <= q for two products
ProductLeq(p, q) ==
    LET x == DecMax(p.x, q.x)
        cmp == LimbCmp(LimbShift(p.mag, x - p.x), LimbShift(q.mag, x - q.x))
    IN  IF p.sign # q.sign THEN p.sign < q.sign
        ELSE IF p.sign = 0 THEN TRUE
        ELSE IF p.sign > 0 THEN cmp <= 0
        ELSE cmp >= 0

\* coefficient of term t <= coefficient of term u (energy_required > 0)
CoefLeq(t, u) ==
    ProductLeq(ProductOf(<<DecInt(t.sign), t.amount, t.speed, t.factor, u.energy>>),
               ProductOf(<<DecInt(u.sign), u.amount, u.speed, u.factor, t.energy>>))

-----------------------------------------------------------------------------
(* Monotonicity in the number of quality modules.                          *)

RecipeOf(act) == Lookup(self.recipes, act.recipe_key)

MachineOf(act) == Lookup(self.crafting_machines, act.crafting_machine_key)

\* the activity of the same recipe, machine, tier and beacon count with one more
\* quality module
OneMoreQualityModule(act) ==
    Activity(self, RecipeOf(act), MachineOf(act), act.recipe_quality,
             act.num_qual_modules + 1, act.num_beaconed_speed_modules)

\* the term the activity adds to the node of the result at tier e
ResultTermAt(act, result_data, e) ==
    ResultQualityEffect(self, NodeIds, act, RecipeOf(act), result_data,
                        Lookup(self.items, result_data.name), e).term

\* the activities of a recipe with allow_productivity that have a successor in n_qual
Steppable ==
    {a \in 1..Len(lp.solver_recipes) :
        /\ RecipeOf(lp.solver_recipes[a]).allow_productivity
        /\ lp.solver_recipes[a].num_qual_modules < MachineOf(lp.solver_recipes[a]).module_slots}

\* the quality-eligible results of the recipe of the activity
EligibleResults(act) ==
    {i \in 1..Len(RecipeOf(act).results) :
        /\ HasKey(self.items, RecipeOf(act).results[i].name)
        /\ Lookup(self.items, RecipeOf(act).results[i].name).allows_quality}

\* run() has ended, in Solve() or in an exception
RunEnded == RunStarted /\ pc \in {"solve", "error"}

\* C16 as stated: at fixed recipe (with allow_productivity), machine, tier and
\* beacon count, one more quality module (one less productivity module) never
\* increases the coefficient on the same-tier node of a quality-eligible
\* result and never decreases the coefficient on a higher-tier node of it.
C16_AsStated ==
    RunEnded =>
        \A a \in Steppable :
            LET act == lp.solver_recipes[a]
                more == OneMoreQualityModule(act)
            IN  \A i \in EligibleResults(act) :
                    \A e \in act.recipe_quality..self.max_quality_unlocked :
                        IF e = act.recipe_quality
                        THEN CoefLeq(ResultTermAt(more, RecipeOf(act).results[i], e),
                                     ResultTermAt(act, RecipeOf(act).results[i], e))
                        ELSE CoefLeq(ResultTermAt(act, RecipeOf(act).results[i], e),
                                     ResultTermAt(more, RecipeOf(act).results[i], e))

\* C16 amended: at fixed recipe, machine, tier and beacon count, one more
\* quality module never increases the quality factor of the same-tier node of
\* a quality-eligible result and never decreases the quality factor of a
\* higher-tier node, the quality factor being the coefficient divided by
\* expected amount * speed factor / energy_required.
C16_QualityFactor ==
    RunEnded =>
        \A a \in Steppable :
            LET act == lp.solver_recipes[a]
                more == OneMoreQualityModule(act)
            IN  /\ HasKey(lp.solver_recipes, more.key)
                /\ \A i \in EligibleResults(act) :
                    \A e \in act.recipe_quality..self.max_quality_unlocked :
                        IF e = act.recipe_quality
                        THEN DecLeq(ResultTermAt(more, RecipeOf(act).results[i], e).factor,
                                    ResultTermAt(act, RecipeOf(act).results[i], e).factor)
                        ELSE DecLeq(ResultTermAt(act, RecipeOf(act).results[i], e).factor,
                                    ResultTermAt(more, RecipeOf(act).results[i], e).factor)

\* four slots, legendary tier-3 modules: from 0 to 1 quality module the factor of
\* the normal plate falls from 1 to 0.938 while its coefficient rises
C16_Witness ==
    /\ pc = "solve"
    /\ config.data = "one-step"
    /\ config = MkConfig([OneStepScenario EXCEPT !.allow_byproducts = config.allow_byproducts])
    /\ \E a \in Steppable :
          LET act == lp.solver_recipes[a]
              more == OneMoreQualityModule(act)
          IN  /\ act.num_qual_modules = 0 /\ act.recipe_quality = 0
              /\ act.num_beaconed_speed_modules = 0
              /\ ResultTermAt(act, Smelt.results[1], 0).factor = DecInt(1)
              /\ ResultTermAt(more, Smelt.results[1], 0).factor = Dec(938, 3)
              /\ ResultTermAt(more, Smelt.results[1], 4).factor = Dec(62, 6)
              /\ ~CoefLeq(ResultTermAt(more, Smelt.results[1], 0), ResultTermAt(act, Smelt.results[1], 0))
              /\ InList(ResultTermAt(more, Smelt.results[1], 0), Lookup(lp.solver_items, "normal__plate").terms)

-----------------------------------------------------------------------------
(* Catalog normalization.                                                  *)

\* the catalog with the items and recipes replaced by the normalized ones
NormalizedCatalog == [data EXCEPT !.items = self.items, !.recipes = self.recipes]

\* the qualities list of something that allows quality or not
QualitiesFor(allows_quality) ==
    IF allows_quality THEN [q \in 1..(QUALITY_LEVELS[config.max_quality_unlocked] + 1) |-> q - 1]
    ELSE <<0>>

\* the recipes of the catalog (by position) whose ingredients are all catalog items
KnownRecipes == {j \in 1..Len(data.recipes) : KnownIngredients(data.recipes[j])}

IsFluid(name) == \E i \in 1..Len(data.items) : data.items[i].key = name /\ data.items[i].type = "fluid"

\* C17: the items and recipes the constructor builds are determined by the
\* catalog and max_quality_unlocked alone (every item tagged from its type,
\* every recipe with known ingredients kept and tagged from its ingredients,
\* every other field as in the catalog), and ingesting the normalized catalog
\* again gives the same items and recipes: the tagging is idempotent.
C17_Idempotent ==
    pc = "constructed" =>
        /\ Len(self.items) = Len(data.items)
        /\ \A i \in 1..Len(data.items) :
              /\ self.items[i].allows_quality = (data.items[i].type # "fluid")
              /\ self.items[i].qualities = QualitiesFor(data.items[i].type # "fluid")
              /\ \A f \in DOMAIN data.items[i] : self.items[i][f] = data.items[i][f]
        /\ {self.recipes[r].key : r \in 1..Len(self.recipes)} = {data.recipes[j].key : j \in KnownRecipes}
        /\ \A r \in 1..Len(self.recipes) :
              \E j \in KnownRecipes :
                  /\ \A f \in DOMAIN data.recipes[j] : self.recipes[r][f] = data.recipes[j][f]
                  /\ self.recipes[r].allows_quality
                        = (\E k \in 1..Len(data.recipes[j].ingredients) :
                              ~IsFluid(data.recipes[j].ingredients[k].name))
                  /\ self.recipes[r].qualities = QualitiesFor(self.recipes[r].allows_quality)
        /\ TagItems(self.items, self.max_quality_unlocked) = self.items
        /\ NormalizeRecipes(self.recipes, FALSE, self.recipes, self.items, self.max_quality_unlocked)
              = [recipes |-> self.recipes, raised |-> FALSE]
        /\ LinearSolver_init(config, NormalizedCatalog).tag = "return"
        /\ LinearSolver_init(config, NormalizedCatalog).obj = self

\* a catalog with a recipe that is dropped, ingested with epic as the top tier
C17_Witness ==
    /\ pc = "constructed"
    /\ config.data = "ghost-one"
    /\ config.max_quality_unlocked = "epic"
    /\ Len(data.recipes) = 3 /\ Len(self.recipes) = 2
    /\ self.items[1].qualities = <<0, 1, 2, 3>>
    /\ self.items[3].qualities = <<0>>
    /\ self.recipes[1].key = "smelt" /\ self.recipes[1].allows_quality
    /\ LinearSolver_init(config, NormalizedCatalog).obj.recipes = self.recipes

-----------------------------------------------------------------------------
(* The activities of a recipe.                                             *)

\* the beacon counts enumerated
BeaconSet == IF config.check_speed_modules = "true" THEN 0..16 ELSE {0}

\* the iteration of run() for the r-th recipe has ended
RecipeDone(r) == RunStarted /\ lp.next_recipe > r

\* the recipe is allowed and a machine is chosen for it
HasMachine(recipe_data) ==
    /\ RecipePermitted(recipe_data)
    /\ get_best_crafting_machine(self, recipe_data).tag = "return"
    /\ get_best_crafting_machine(self, recipe_data).value = "machine"

NumProdFor(recipe_data, machine, n_qual) ==
    IF recipe_data.allow_productivity THEN machine.module_slots - n_qual ELSE 0

\* the identifiers of the tuples (tier, n_qual, n_beacon) of the recipe on the machine
TupleIds(recipe_data, machine) ==
    {get_recipe_id(recipe_data.key, t[1], machine.key, t[2], NumProdFor(recipe_data, machine, t[2]), t[3]) :
        t \in {recipe_data.qualities[i] : i \in 1..Len(recipe_data.qualities)}
              \X (0..machine.module_slots) \X BeaconSet}

\* the number of times a variable of that name was created: each creation adds
\* the variable once to the building counter
TimesCreated(id) ==
    Len(SelectSeq(lp.num_buildings_var, LAMBDA b : b.var = id))

\* C18: once run() has handled an allowed recipe with a chosen machine, the
\* activity variables of the recipe are exactly one per tuple (tier, n_qual,
\* n_beacon) of recipe qualities x 0..module_slots x beacon set ({0..16} when
\* check_speed_modules is true, {0} otherwise), all identifiers distinct, each
\* with n_prod = module_slots - n_qual if the recipe allows productivity and 0
\* otherwise, hence n_qual + n_prod <= module_slots.
C18_Activities ==
    \A r \in 1..(IF RunStarted THEN Len(self.recipes) ELSE 0) :
        (RecipeDone(r) /\ HasMachine(self.recipes[r])) =>
            LET recipe_data == self.recipes[r]
                machine == get_best_crafting_machine(self, recipe_data).machine
                ids == TupleIds(recipe_data, machine)
            IN  /\ {lp.solver_recipes[a].key : a \in ActivitiesOf(recipe_data.key)} = ids
                /\ Cardinality(ids)
                      = Len(recipe_data.qualities) * (machine.module_slots + 1) * Cardinality(BeaconSet)
                /\ Cardinality(ActivitiesOf(recipe_data.key)) = Cardinality(ids)
                /\ \A id \in ids : TimesCreated(id) = 1
                /\ \A a \in ActivitiesOf(recipe_data.key) :
                      LET act == lp.solver_recipes[a]
                      IN  /\ act.crafting_machine_key = machine.key
                          /\ act.num_qual_modules \in 0..machine.module_slots
                          /\ act.num_beaconed_speed_modules \in BeaconSet
                          /\ InList(act.recipe_quality, recipe_data.qualities)
                          /\ act.num_prod_modules
                                = NumProdFor(recipe_data, machine, act.num_qual_modules)
                          /\ act.num_qual_modules + act.num_prod_modules <= machine.module_slots
                          /\ act.key = get_recipe_id(recipe_data.key, act.recipe_quality, machine.key,
                                                     act.num_qual_modules, act.num_prod_modules,
                                                     act.num_beaconed_speed_modules)

\* the reference catalog with beacons: 5 x 3 x 17 activities of smelt on the
\* furnace, 5 x 2 x 17 of wash on the plant, 1 x 2 x 17 of ore-mining on the drill
C18_Witness ==
    /\ pc = "done"
    /\ config.check_speed_modules = "true"
    /\ config.data = "reference"
    /\ Cardinality(ActivitiesOf("smelt")) = 255
    /\ Cardinality(ActivitiesOf("wash")) = 170
    /\ Cardinality(ActivitiesOf("ore-mining")) = 34
    /\ HasKey(lp.solver_recipes, "epic__smelt__furnace__1-qual__1-prod__16-beaconed-speed")
    /\ HasKey(lp.solver_recipes, "epic__wash__plant__1-qual__0-prod__7-beaconed-speed")

-----------------------------------------------------------------------------
(* The nodes of the result terms.                                          *)

\* the recipes with a result of that name
RecipesProducing(name) ==
    {self.recipes[r].key : r \in {q \in 1..Len(self.recipes) :
        \E i \in 1..Len(self.recipes[q].results) : self.recipes[q].results[i].name = name}}

\* the variables of the activities of a recipe with a result of that name, at a
\* recipe tier among tiers
Producers(name, tiers) ==
    {lp.solver_recipes[a].key : a \in {b \in 1..Len(lp.solver_recipes) :
        /\ lp.solver_recipes[b].recipe_quality \in tiers
        /\ lp.solver_recipes[b].recipe_key \in RecipesProducing(name)}}

TermSet(terms) == {terms[k] : k \in 1..Len(terms)}

ResultTerms(n) == {t \in TermSet(lp.solver_items[n].terms) : t.kind = "result"}

\* C19: a result term on the node (name, e) belongs to an activity of a recipe
\* with a result of that name; if the item allows quality the recipe tier t
\* of the activity has t <= e <= max_quality_unlocked and the factor is the
\* kernel's, and if the item is a fluid or otherwise does not allow quality then
\* e = 0 and the quality factor is 1. No result term lies below the recipe tier
\* of its activity on a node of an item that allows quality.
C19_ResultNodes ==
    RunEnded =>
        \A n \in 1..Len(lp.solver_items) :
            \E i \in 1..Len(self.items), e \in 0..MaxTier :
                /\ lp.solver_items[n].key = get_item_id(self.items[i].key, e)
                /\ IF self.items[i].allows_quality
                   THEN LET from == Producers(self.items[i].key, 0..e)
                        IN  \A t \in ResultTerms(n) :
                                /\ t.var \in from
                                /\ e <= self.max_quality_unlocked
                                /\ t.kernel
                   ELSE LET from == Producers(self.items[i].key, 0..MaxTier)
                        IN  \A t \in ResultTerms(n) :
                                /\ t.var \in from
                                /\ e = 0
                                /\ ~t.kernel
                                /\ t.factor = DecInt(1)

\* wash at the rare tier yields plates at the rare, epic and legendary tiers and
\* no lower, and its water at the normal tier with factor 1
C19_Witness ==
    /\ pc = "done"
    /\ config.data = "reference"
    /\ self.max_quality_unlocked = 4
    /\ LET id == "rare__wash__plant__1-qual__0-prod__0-beaconed-speed"
           Lands(node) == \E t \in TermSet(Lookup(lp.solver_items, node).terms) :
                              t.kind = "result" /\ t.var = id
       IN  /\ HasKey(lp.solver_recipes, id)
           /\ ~Lands("normal__plate") /\ ~Lands("uncommon__plate")
           /\ Lands("rare__plate") /\ Lands("epic__plate") /\ Lands("legendary__plate")
           /\ \E t \in TermSet(Lookup(lp.solver_items, "normal__water").terms) :
                  t.kind = "result" /\ t.var = id /\ t.factor = DecInt(1) /\ ~t.kernel

-----------------------------------------------------------------------------
(* The nodes of the ingredient terms.                                      *)

\* the activities whose ingredient of that name is taken from the node (name, e)
Consumers(item_data, e) ==
    {a \in 1..Len(lp.solver_recipes) :
        /\ \E i \in 1..Len(RecipeOf(lp.solver_recipes[a]).ingredients) :
              RecipeOf(lp.solver_recipes[a]).ingredients[i].name = item_data.key
        /\ IF item_data.allows_quality THEN lp.solver_recipes[a].recipe_quality = e ELSE e = 0}

\* the terms -(amount * speed_factor / energy_required) * recipe_var of the
\* consumers of the node, one for each ingredient of that name
ConsumerTerms(item_data, e) ==
    UNION {
        LET act == lp.solver_recipes[a]
            recipe_data == RecipeOf(act)
        IN  {Term("ingredient", act.key, -1, recipe_data.ingredients[i].amount, act.speed_factor,
                  DecInt(1), recipe_data.energy_required) :
                i \in {j \in 1..Len(recipe_data.ingredients) :
                          recipe_data.ingredients[j].name = item_data.key}}
        : a \in Consumers(item_data, e)}

IngredientTerms(n) == SelectSeq(lp.solver_items[n].terms, LAMBDA t : t.kind = "ingredient")

\* C20: for every activity and every ingredient of its recipe exactly one term
\* is added, on the node (name, recipe tier) if the ingredient item allows
\* quality and on (name, 0) otherwise, with coefficient
\* -(amount * speed_factor / energy_required): the ingredient terms of every
\* node are those of its consumers, each once, and no others.
C20_IngredientTerms ==
    RunEnded =>
        \A n \in 1..Len(lp.solver_items) :
            \E i \in 1..Len(self.items), e \in 0..MaxTier :
                /\ lp.solver_items[n].key = get_item_id(self.items[i].key, e)
                /\ LET expected == ConsumerTerms(self.items[i], e)
                   IN  /\ TermSet(IngredientTerms(n)) = expected
                       /\ Len(IngredientTerms(n)) = Cardinality(expected)

\* wash at the rare tier takes 1 ore from rare__ore and 10 water from
\* normal__water, each once, and nothing from the other tiers of ore
C20_Witness ==
    /\ pc = "done"
    /\ config.data = "reference"
    /\ self.max_quality_unlocked = 4
    /\ LET id == "rare__wash__plant__1-qual__0-prod__0-beaconed-speed"
           Taken(node) == SelectSeq(Lookup(lp.solver_items, node).terms,
                                    LAMBDA t : t.kind = "ingredient" /\ t.var = id)
       IN  /\ HasKey(lp.solver_recipes, id)
           /\ Len(Taken("rare__ore")) = 1
           /\ Taken("rare__ore")[1].amount = DecInt(1)
           /\ Taken("rare__ore")[1].sign = -1
           /\ Taken("rare__ore")[1].speed = Lookup(lp.solver_recipes, id).speed_factor
           /\ Len(Taken("normal__water")) = 1
           /\ Taken("normal__water")[1].amount = DecInt(10)
           /\ Len(Taken("normal__ore")) = 0
           /\ Len(Taken("epic__ore")) = 0

-----------------------------------------------------------------------------
(* The speed factor without beacons, in both builders.                     *)

\* generic_linear_solver.py, lines 17 and 25
QUALITY_SPEED_PENALTIES == <<Milli(-50), Milli(-50), Milli(-50)>>

PROD_SPEED_PENALTIES == <<Milli(-50), Milli(-100), Milli(-150)>>

\* the module tiers of a QualityLinearSolver configuration: indices into the tables
GenericTiers == 0..(Len(QUALITY_SPEED_PENALTIES) - 1)

\* QualityLinearSolver.setup_recipe_var, line 179, with the penalties of lines 97-98
QualitySpeedFactor(crafting_machine_speed, quality_module_tier, prod_module_tier, num_qual_modules, num_prod_modules) ==
    LET quality_speed_penalty == QUALITY_SPEED_PENALTIES[quality_module_tier + 1]
        prod_speed_penalty == PROD_SPEED_PENALTIES[prod_module_tier + 1]
    IN  DecMul(crafting_machine_speed,
               DecSub(DecInt(1),
                      DecAdd(DecMul(DecInt(num_qual_modules), quality_speed_penalty),
                             DecMul(DecInt(num_prod_modules), prod_speed_penalty))))

\* the activities without beaconed speed modules
Unbeaconed == {a \in 1..Len(lp.solver_recipes) : lp.solver_recipes[a].num_beaconed_speed_modules = 0}

\* LinearSolver: the speed factor is crafting_speed * (1 - n_qual * penalty -
\* n_prod * penalty) with penalties >= 0, and is at most crafting_speed
LinearSpeedBounded ==
    \A a \in Unbeaconed :
        LET act == lp.solver_recipes[a]
            crafting_speed == MachineOf(act).crafting_speed
        IN  /\ DecSign(self.speed_penalty_per_quality_module) >= 0
            /\ DecSign(self.speed_penalty_per_prod_module) >= 0
            /\ DecEq(act.speed_factor,
                     DecMul(crafting_speed,
                            DecSub(DecSub(DecInt(1),
                                          DecMul(DecInt(act.num_qual_modules),
                                                 self.speed_penalty_per_quality_module)),
                                   DecMul(DecInt(act.num_prod_modules),
                                          self.speed_penalty_per_prod_module))))
            /\ DecLeq(act.speed_factor, crafting_speed)

\* QualityLinearSolver enumerates (tier, n_qual) with the same n_prod: its speed
\* factor for the same machine and module counts, for every pair of module tiers
QualitySpeedBounded ==
    \A a \in Unbeaconed : \A qt \in GenericTiers, pt \in GenericTiers :
        LET act == lp.solver_recipes[a]
            crafting_speed == MachineOf(act).crafting_speed
        IN  /\ DecSign(QUALITY_SPEED_PENALTIES[qt + 1]) >= 0
            /\ DecSign(PROD_SPEED_PENALTIES[pt + 1]) >= 0
            /\ DecLeq(QualitySpeedFactor(crafting_speed, qt, pt, act.num_qual_modules,
                                         act.num_prod_modules),
                      crafting_speed)

\* C21 as stated: with zero beaconed speed modules every activity's speed
\* factor is crafting_speed * (1 - n_qual * speed_penalty_per_quality_module -
\* n_prod * speed_penalty_per_prod_module) with non-negative penalties and so
\* never exceeds crafting_speed, in LinearSolver and in QualityLinearSolver.
C21_AsStated == RunEnded => (LinearSpeedBounded /\ QualitySpeedBounded)

-----------------------------------------------------------------------------
(* The expected amount of a result.                                        *)

\* the optional fields of a result, with their defaults
Probability(r) == IF "probability" \in DOMAIN r THEN r.probability ELSE DecInt(1)

Ignored(r) == IF "ignored_by_productivity" \in DOMAIN r THEN r.ignored_by_productivity ELSE DecInt(0)

Extra(r) == IF "extra_count_fraction" \in DOMAIN r THEN r.extra_count_fraction ELSE DecInt(0)

Base(r) ==
    IF "amount" \in DOMAIN r THEN r.amount
    ELSE DecMul(Dec(5, 1), DecAdd(r.amount_min, r.amount_max))

\* prod = n_prod * prod_module_bonus + machine prod_bonus
ProdOf(act) ==
    DecAdd(DecMul(DecInt(act.num_prod_modules), self.prod_module_bonus), MachineOf(act).prod_bonus)

\* (ignored + (base - ignored) * (1 + prod)) * probability * (1 + extra)
ExpectedAmount(r, prod) ==
    DecMul(DecMul(DecAdd(Ignored(r), DecMul(DecSub(Base(r), Ignored(r)), DecAdd(DecInt(1), prod))),
                  Probability(r)),
           DecAdd(DecInt(1), Extra(r)))

\* the pairs (activity variable, amount) of the results of that name of the
\* activities that produce onto the node (name, e)
ProducedAmounts(item_data, e) ==
    UNION {
        LET act == lp.solver_recipes[a]
            recipe_data == RecipeOf(act)
        IN  {<<act.key, DecNorm(ExpectedAmount(recipe_data.results[i], ProdOf(act)))>> :
                i \in {j \in 1..Len(recipe_data.results) :
                          recipe_data.results[j].name = item_data.key}}
        : a \in {b \in 1..Len(lp.solver_recipes) :
                    /\ lp.solver_recipes[b].recipe_key \in RecipesProducing(item_data.key)
                    /\ IF item_data.allows_quality THEN lp.solver_recipes[b].recipe_quality <= e
                       ELSE e = 0}}

\* C22: the amount of every result term is (ignored_by_productivity + (base -
\* ignored_by_productivity) * (1 + prod)) * probability * (1 + extra_count_fraction),
\* with base = amount or (amount_min + amount_max) / 2, prod = n_prod *
\* prod_module_bonus + machine prod_bonus, and the defaults probability 1,
\* ignored 0, extra 0; the coefficient is that amount times the speed factor
\* and the quality factor over energy_required, so (1 + prod) enters once.
C22_ExpectedAmount ==
    RunEnded =>
        \A n \in 1..Len(lp.solver_items) :
            \E i \in 1..Len(self.items), e \in 0..MaxTier :
                /\ lp.solver_items[n].key = get_item_id(self.items[i].key, e)
                /\ {<<t.var, DecNorm(t.amount)>> : t \in ResultTerms(n)}
                      = ProducedAmounts(self.items[i], e)

\* sift with one productivity module on the furnace (tier 3 legendary modules,
\* bonus 0.25): plate (1 + (2 - 1) * 1.25) * 0.5 * 1.25 = 1.40625 and
\* ore 1 * 1.25 * 0.25 = 0.3125
C22_Witness ==
    /\ pc = "done"
    /\ config.data = "lottery"
    /\ DecEq(self.prod_module_bonus, Dec(25, 2))
    /\ LET id == "normal__sift__furnace__1-qual__1-prod__0-beaconed-speed"
       IN  /\ HasKey(lp.solver_recipes, id)
           /\ \E t \in TermSet(Lookup(lp.solver_items, "normal__plate").terms) :
                  t.kind = "result" /\ t.var = id /\ DecEq(t.amount, Dec(140625, 5))
           /\ \E t \in TermSet(Lookup(lp.solver_items, "normal__ore").terms) :
                  t.kind = "result" /\ t.var = id /\ DecEq(t.amount, Dec(3125, 4))

-----------------------------------------------------------------------------
(* The objective.                                                          *)

\* run() has called Minimize
Minimized == RunStarted /\ pc \in {"solve", "done"} /\ lp.minimize

CoefSet(coefs) == {coefs[k] : k \in 1..Len(coefs)}

\* the node of the i-th declared input
SupplyNode(i) ==
    get_item_id(IF self.inputs[i].resource
                THEN get_resource_item_key(self.inputs[i].key) ELSE self.inputs[i].key,
                QUALITY_LEVELS[self.inputs[i].quality])

\* the supply of the i-th declared input
SupplyOf(i) == get_input_id(SupplyNode(i))

\* sum over activities of (n_qual + n_prod + n_beacon) * activity, the zero
\* products left out, plus the auxiliary variable
ModuleSum ==
    {[coef |-> 1, var |-> "num-modules"]}
    \cup {[coef |-> lp.solver_recipes[a].num_qual_modules + lp.solver_recipes[a].num_prod_modules
                       + lp.solver_recipes[a].num_beaconed_speed_modules,
           var |-> lp.solver_recipes[a].key] :
            a \in {b \in 1..Len(lp.solver_recipes) :
                      lp.solver_recipes[b].num_qual_modules + lp.solver_recipes[b].num_prod_modules
                        + lp.solver_recipes[b].num_beaconed_speed_modules # 0}}

\* sum of the activities, plus the auxiliary variable
BuildingSum ==
    {[coef |-> 1, var |-> "num-buildings"]}
    \cup {[coef |-> 1, var |-> lp.solver_recipes[a].key] : a \in 1..Len(lp.solver_recipes)}

CostsNonNegative ==
    /\ DecSign(self.module_cost) >= 0
    /\ DecSign(self.building_cost) >= 0
    /\ \A i \in 1..Len(self.inputs) : DecSign(self.inputs[i].cost) >= 0

\* C23: the minimized objective is the sum of cost * supply over the declared
\* inputs, plus module_cost * (sum over activities of (n_qual + n_prod +
\* n_beacon) * activity), plus building_cost * (sum of the activities), each
\* activity entering each counter once, apart from the auxiliary variables
\* num-modules and num-buildings; with all costs >= 0 every coefficient of the
\* objective is >= 0.
C23_Objective ==
    Minimized =>
        LET ni == Len(self.inputs)
        IN  /\ Len(lp.objective) = ni + 2
            /\ \A i \in 1..ni :
                  /\ lp.objective[i].cost = self.inputs[i].cost
                  /\ lp.objective[i].vars = <<[coef |-> 1, var |-> SupplyOf(i)]>>
            /\ lp.objective[ni + 1].cost = self.module_cost
            /\ CoefSet(lp.objective[ni + 1].vars) = ModuleSum
            /\ Len(lp.objective[ni + 1].vars) = Cardinality(ModuleSum)
            /\ lp.objective[ni + 2].cost = self.building_cost
            /\ CoefSet(lp.objective[ni + 2].vars) = BuildingSum
            /\ Len(lp.objective[ni + 2].vars) = Cardinality(BuildingSum)
            /\ CostsNonNegative =>
                  \A c \in 1..Len(lp.objective) :
                      /\ DecSign(lp.objective[c].cost) >= 0
                      /\ \A v \in CoefSet(lp.objective[c].vars) : v.coef >= 0

\* the reference catalog with beacons and two declared inputs: an activity with
\* 1 quality module, 1 productivity module and 16 beaconed speed modules counts
\* 18 modules and 1 building
C23_Witness ==
    /\ pc = "done"
    /\ config.check_speed_modules = "true"
    /\ Len(self.inputs) = 2
    /\ Len(lp.objective) = 4
    /\ LET id == "normal__smelt__furnace__1-qual__1-prod__16-beaconed-speed"
       IN  /\ [coef |-> 18, var |-> id] \in CoefSet(lp.objective[3].vars)
           /\ [coef |-> 1, var |-> id] \in CoefSet(lp.objective[4].vars)
    \* an activity without modules is in the building counter only
    /\ "normal__wash__plant__0-qual__0-prod__0-beaconed-speed"
          \in {v.var : v \in CoefSet(lp.objective[4].vars)}
                \ {v.var : v \in CoefSet(lp.objective[3].vars)}

-----------------------------------------------------------------------------
(* The constraints emitted.                                                *)

\* the constraints emitted for the node
ConstraintsFor(id) == {c \in 1..Len(lp.constraints) : lp.constraints[c].key = id}

\* the supplies enter with +1, the sinks with -1, the demands as the constant
\* -amount, each on its own node
BoundaryTerms ==
    /\ \A i \in 1..Len(self.inputs) :
          \E c \in ConstraintsFor(SupplyNode(i)) :
              \E t \in TermSet(lp.constraints[c].terms) :
                  t.kind = "input" /\ t.var = SupplyOf(i) /\ HasCoefficient(t, 1)
    /\ \A o \in 1..Len(self.outputs) :
          \E c \in ConstraintsFor(get_item_id(self.outputs[o].key, QUALITY_LEVELS[self.outputs[o].quality])) :
              \E t \in TermSet(lp.constraints[c].terms) :
                  /\ t.kind = "output" /\ t.var = ""
                  /\ DecEq(DecMul(DecInt(t.sign), t.amount), DecNeg(self.outputs[o].amount))
    /\ \A c \in 1..Len(lp.constraints) : \A t \in TermSet(lp.constraints[c].terms) :
          /\ t.kind = "input" => HasCoefficient(t, 1)
          /\ t.kind = "byproduct" =>
                HasCoefficient(t, 0 - 1) /\ t.var = get_byproduct_id(lp.constraints[c].key)
          /\ t.kind = "output" => t.var = "" /\ t.sign = 0 - 1

\* no constraint exists before the last term is appended, and no term is
\* appended once the constraints exist
EmittedLast ==
    /\ pc \notin {"solve", "done"} => lp.constraints = <<>>
    /\ pc \in {"solve", "done"} =>
          \A n \in 1..Len(lp.solver_items) : \A c \in ConstraintsFor(lp.solver_items[n].key) :
              lp.constraints[c].terms = lp.solver_items[n].terms

\* C24 as stated: exactly one constraint for each node with at least one
\* term, none for a node with no terms; supplies +1, sinks -1, demands the
\* constant -amount; constraints emitted after all terms.
C24_AsStated ==
    /\ EmittedLast
    /\ Minimized =>
          /\ BoundaryTerms
          /\ \A n \in 1..Len(lp.solver_items) :
                Cardinality(ConstraintsFor(lp.solver_items[n].key))
                   = IF lp.solver_items[n].terms # <<>> THEN 1 ELSE 0

\* C24: run() emits exactly one constraint sum(terms) = 0 for each node,
\* whether the node has terms or not, and no other constraint; each supply
\* enters its node with coefficient +1, each sink with -1, each demand as the
\* constant -amount; the constraints are emitted after every term has been
\* appended.
C24_OnePerNode ==
    /\ EmittedLast
    /\ Minimized =>
          /\ BoundaryTerms
          /\ \A n \in 1..Len(lp.solver_items) :
                Cardinality(ConstraintsFor(lp.solver_items[n].key)) = 1
          /\ Len(lp.constraints) = Len(lp.solver_items)

\* a run with a supply, a demand and a node without any term
C24_Witness ==
    /\ pc = "done"
    /\ Len(self.inputs) > 0
    /\ Len(self.outputs) > 0
    /\ \E n \in 1..Len(lp.solver_items) :
          /\ lp.solver_items[n].terms = <<>>
          /\ Cardinality(ConstraintsFor(lp.solver_items[n].key)) = 1
    /\ \E n \in 1..Len(lp.solver_items) :
          \E t \in TermSet(lp.solver_items[n].terms) : t.kind = "ingredient"

-----------------------------------------------------------------------------
(* Resources and mining drills.                                            *)

\* the nodes of the item, at any tier
NodesOfItem(item_key) == {get_item_id(item_key, e) : e \in 0..MaxTier} \cap NodeIds

\* the item and the recipe made of a catalog resource
ResourceEntries(res) ==
    LET item_key == res.key \o "-resource"
        recipe_key == res.key \o "-mining"
    IN  /\ HasKey(self.items, item_key)
        /\ ~Lookup(self.items, item_key).allows_quality
        /\ Lookup(self.items, item_key).qualities = <<0>>
        /\ NodesOfItem(item_key) = {"normal__" \o item_key}
        /\ HasKey(self.recipes, recipe_key)
        /\ LET recipe_data == Lookup(self.recipes, recipe_key)
           IN  /\ recipe_data.ingredients
                     = IF res.has_required_fluid
                       THEN <<[name |-> item_key, amount |-> DecInt(1)],
                              [name |-> res.required_fluid, amount |-> res.fluid_amount]>>
                       ELSE <<[name |-> item_key, amount |-> DecInt(1)]>>
               /\ recipe_data.results = res.results
               /\ recipe_data.energy_required = res.mining_time
               /\ ~recipe_data.allow_productivity
               /\ recipe_data.qualities = <<0>>
        /\ \A a \in ActivitiesOf(recipe_key) :
              /\ lp.solver_recipes[a].num_prod_modules = 0
              /\ lp.solver_recipes[a].recipe_quality = 0

\* the machine made of a mining drill
DrillEntry(drill) ==
    /\ HasKey(self.crafting_machines, drill.key)
    /\ LET machine == Lookup(self.crafting_machines, drill.key)
       IN  /\ machine.crafting_speed = drill.mining_speed
           /\ machine.crafting_categories = drill.resource_categories
           /\ machine.prod_bonus = DecInt(0)
           /\ machine.module_slots = drill.module_slots

\* C25: once run() has created a node or an activity, every catalog resource
\* has its item '<key>-resource' (no quality, the one node at tier 0) and its
\* recipe '<key>-mining' (1 '<key>-resource' plus fluid_amount of
\* required_fluid when there is one, the resource's results, energy_required
\* = mining_time, allow_productivity false), every mining activity has
\* n_prod = 0 and recipe tier 0, and every mining drill is a machine with
\* crafting_speed = mining_speed, crafting_categories = resource_categories
\* and prod_bonus 0.
C25_Synthetic ==
    (lp.solver_items # <<>> \/ lp.solver_recipes # <<>>) =>
        /\ \A r \in 1..Len(data.resources) : ResourceEntries(data.resources[r])
        /\ \A d \in 1..Len(data.mining_drills) : DrillEntry(data.mining_drills[d])

\* ore mined with water on the drill: two activities, none with productivity
C25_Witness ==
    /\ pc = "done"
    /\ config.data = "wet"
    /\ Lookup(self.recipes, "ore-mining").ingredients
          = <<Ingredient("ore-resource", DecInt(1)), Ingredient("water", DecInt(10))>>
    /\ Lookup(self.recipes, "ore-mining").category = "basic-solid"
    /\ Lookup(self.crafting_machines, "drill").crafting_speed = Dec(5, 1)
    /\ {lp.solver_recipes[a].key : a \in ActivitiesOf("ore-mining")}
          = {"normal__ore-mining__drill__0-qual__0-prod__0-beaconed-speed",
             "normal__ore-mining__drill__1-qual__0-prod__0-beaconed-speed"}

-----------------------------------------------------------------------------
(* The matrix prototypes against the kernel.                               *)

\* QualityFactor(i, j, n - 1, q) * p
KernelTimes(i, j, n, q, p) ==
    DecMul(calculate_quality_probability_factor(i, j, n - 1, q).value, p)

\* main.py: the row of the recipe at tier i, the top recipe with its own multiplier
MainConforms ==
    mX.main # <<>> =>
        \A i \in 0..(NUM_QUALITIES - 1) : \A j \in i..(NUM_QUALITIES - 1) :
            DecEq(mX.main[j + 1][i + 1],
                  IF i = NUM_QUALITIES - 1
                  THEN KernelTimes(i, j, NUM_QUALITIES, DecInt(0),
                                   DecAdd(DecAdd(DecInt(1), DecMul(DecInt(NUM_CRAFTING_MODULES), PROD_BONUS)),
                                          ASSEMBLER_PROD_BONUS))
                  ELSE KernelTimes(i, j, NUM_QUALITIES, MainQ(mconf.frac_quality, i),
                                   MainP(mconf.frac_quality, i)))

\* RecyclerSolver: the last recipe holds no quality module (q = 0)
RecyclerConforms ==
    mX.recycler # <<>> =>
        LET n == num_quality_items_in_solver(mconf)
            r == num_quality_recipes_in_solver(mconf)
        IN  \A i \in 0..(r - 1) : \A j \in i..(n - 1) :
                DecEq(mX.recycler[j + 1][i + 1],
                      IF i = r - 1
                      THEN KernelTimes(i, j, n, DecInt(0),
                                       StepP(mconf, IF mconf.disable_prod THEN DecInt(1) ELSE DecInt(0)))
                      ELSE KernelTimes(i, j, n, StepQ(mconf, mconf.frac_quality[i + 1]),
                                       StepP(mconf, mconf.frac_quality[i + 1])))

\* NoRecyclerSolver: the one recipe, at the starting tier
NoRecyclerConforms ==
    mX.norecycler # <<>> =>
        LET n == num_quality_items_in_solver(mconf)
        IN  \A j \in 0..(n - 1) :
                DecEq(mX.norecycler[j + 1][1],
                      KernelTimes(0, j, n, StepQ(mconf, mconf.frac_quality[1]),
                                  StepP(mconf, mconf.frac_quality[1])))

\* C26 as stated: for every source tier i the output row of
\* initialize_recipe_matrix in main.py, NoRecyclerSolver and RecyclerSolver,
\* divided by the productivity multiplier p, equals QualityFactor(i, j, N-1, q)
\* for every j >= i.
C26_AsStated == MainConforms /\ RecyclerConforms /\ NoRecyclerConforms

-----------------------------------------------------------------------------
(* Machines none of which is best in every respect.                        *)

\* the recipe has permitted machines of its category, and none of them attains
\* the maximum module_slots, prod_bonus and crafting_speed at once
SplitMachines(recipe_data) ==
    /\ CandidateMachines(recipe_data) # {}
    /\ TopMachines(recipe_data) = {}

\* C27: for a recipe with at least one permitted machine of its category and
\* no machine attaining the three maxima at once, get_best_crafting_machine
\* raises RuntimeError instead of returning None or a machine; no activity of
\* the recipe exists, and when the recipe is allowed run() stops at it: no
\* later recipe is set up, no constraint is emitted, no objective is set and
\* Solve() is never called.
C27_SplitAborts ==
    RunStarted =>
        \A r \in 1..Len(self.recipes) :
            SplitMachines(self.recipes[r]) =>
                /\ get_best_crafting_machine(self, self.recipes[r]).tag = "raise"
                /\ get_best_crafting_machine(self, self.recipes[r]).exc = "RuntimeError"
                /\ get_best_crafting_machine(self, self.recipes[r]).msg
                      = "Unable to disambiguate best crafting machine"
                /\ ActivitiesOf(self.recipes[r].key) = {}
                /\ RecipePermitted(self.recipes[r]) =>
                      /\ lp.next_recipe <= r
                      /\ pc \in {"recipes", "error"}
                      /\ lp.constraints = <<>>
                      /\ lp.objective = <<>>
                      /\ lp.solves = 0
                      /\ (pc = "error" /\ lp.next_recipe = r) =>
                            /\ err.exc = "RuntimeError"
                            /\ err.at = "recipes"
                            /\ err.msg = "Unable to disambiguate best crafting machine"

\* one furnace has the higher speed, the other the more slots: run() stops at
\* smelt with both furnaces permitted
C27_Witness ==
    /\ pc = "error"
    /\ err.exc = "RuntimeError"
    /\ err.msg = "Unable to disambiguate best crafting machine"
    /\ lp.next_recipe \in 1..Len(self.recipes)
    /\ self.recipes[lp.next_recipe].key = "smelt"
    /\ Cardinality(CandidateMachines(self.recipes[lp.next_recipe])) = 2
    /\ SplitMachines(self.recipes[lp.next_recipe])
    /\ \E i, j \in CandidateMachines(self.recipes[lp.next_recipe]) :
          /\ self.crafting_machines[i].module_slots > self.crafting_machines[j].module_slots
          /\ DecLess(self.crafting_machines[i].crafting_speed,
                     self.crafting_machines[j].crafting_speed)
    /\ lp.constraints = <<>>

-----------------------------------------------------------------------------
(* The nodes of the LP are those of setup_item.                            *)

\* the identifiers setup_item makes of the items of the object
SetupItemNodes ==
    UNION {{get_item_id(self.items[i].key, self.items[i].qualities[k]) :
                k \in 1..Len(self.items[i].qualities)} : i \in 1..Len(self.items)}

\* the node of the i-th declared output
DemandNode(i) == get_item_id(self.outputs[i].key, QUALITY_LEVELS[self.outputs[i].quality])

\* a declared input names no node
AbsentInput == \E i \in 1..Len(self.inputs) : SupplyNode(i) \notin NodeIds

\* a declared output names no node
AbsentOutput == \E i \in 1..Len(self.outputs) : DemandNode(i) \notin NodeIds

\* a result of the recipe names no item
AbsentResult(recipe_data) ==
    \E k \in 1..Len(recipe_data.results) : ~HasKey(self.items, recipe_data.results[k].name)

\* setup_recipe_var is reached for the recipe unless run() stops before: the
\* recipe passes the recipe filter and a permitted machine crafts its category
ReachesSetup(recipe_data) ==
    /\ RecipePermitted(recipe_data)
    /\ CandidateMachines(recipe_data) # {}

\* the nodes are those setup_item created, each once
NodesOfSetupItem ==
    RunStarted =>
        /\ NodeIds = SetupItemNodes
        /\ Len(lp.solver_items) = Cardinality(SetupItemNodes)

\* run() has not got past the declaration of the inputs, or has raised
StoppedByInputs == pc \in {"recipes", "error"} /\ lp.constraints = <<>> /\ lp.solves = 0

\* run() has not got past the declaration of the outputs, or has raised
StoppedByOutputs == pc \in {"recipes", "outputs", "error"} /\ lp.constraints = <<>> /\ lp.solves = 0

\* run() has not got past the r-th recipe, and if it raised in the iteration
\* for it, no machine could be chosen or it raised KeyError on a result that
\* is no item
StoppedAtRecipe(r) ==
    /\ lp.next_recipe <= r
    /\ StoppedByInputs
    /\ (pc = "error" /\ lp.next_recipe = r) =>
          /\ err.at = "recipes"
          /\ \/ get_best_crafting_machine(self, self.recipes[r]).tag = "raise"
             \/ /\ err.exc = "KeyError"
                /\ \E k \in 1..Len(self.recipes[r].results) :
                      /\ err.msg = self.recipes[r].results[k].name
                      /\ ~HasKey(self.items, err.msg)

\* C28 as stated: the nodes are those of setup_item and no other; a declared
\* input or output that names no node, or a recipe with a result that is no
\* item of the catalog, makes run() raise before any constraint is emitted.
C28_AsStated ==
    /\ NodesOfSetupItem
    /\ RunStarted =>
          /\ AbsentInput => StoppedByInputs
          /\ AbsentOutput => StoppedByOutputs
          /\ \A r \in 1..Len(self.recipes) :
                AbsentResult(self.recipes[r]) => StoppedAtRecipe(r)

\* C28: the nodes are those of setup_item and no other, at every point of
\* run(); a declared input or output that names no node makes run() raise
\* before any constraint is emitted, and so does a result that is no item of
\* the catalog when its recipe passes the recipe filter and has a permitted
\* machine of its category: run() does not get past that recipe.
C28_Aborts ==
    /\ NodesOfSetupItem
    /\ RunStarted =>
          /\ AbsentInput => StoppedByInputs
          /\ AbsentOutput => StoppedByOutputs
          /\ \A r \in 1..Len(self.recipes) :
                (AbsentResult(self.recipes[r]) /\ ReachesSetup(self.recipes[r])) =>
                    StoppedAtRecipe(r)

\* run() raised KeyError('slag') in setup_recipe_var: the activities of smelt
\* and the first of slag exist, the nodes are the twelve of setup_item
C28_Witness ==
    /\ pc = "error"
    /\ err.exc = "KeyError"
    /\ err.msg = "slag"
    /\ err.at = "recipes"
    /\ lp.next_recipe = 2
    /\ AbsentResult(self.recipes[2])
    /\ StoppedAtRecipe(2)
    /\ ActivitiesOf("slag") # {}
    /\ "normal__slag" \notin NodeIds
    /\ Cardinality(NodeIds) = 12
    /\ lp.constraints = <<>>

\* a demand for a fluid above normal quality stopped run() at the outputs
C28_WitnessFluid ==
    /\ pc = "error"
    /\ err.exc = "KeyError"
    /\ err.msg = "uncommon__water"
    /\ AbsentOutput
    /\ ~AbsentInput
    /\ lp.solver_inputs # <<>>

-----------------------------------------------------------------------------
(* The filters and the recipes and machines made of resources and drills.  *)

\* the terms of the node that consume from it
ConsumerTermsAt(item_id) ==
    IF HasKey(lp.solver_items, item_id)
    THEN {t \in TermSet(Lookup(lp.solver_items, item_id).terms) : t.kind = "ingredient"}
    ELSE {}

\* the recipe filter lets the recipe through
PassesRecipeFilter(recipe_key) == recipe_is_allowed(self, recipe_key) = Return(TRUE)

\* the machine filter lets the machine through
PassesMachineFilter(machine_key) == crafting_machine_is_allowed(self, machine_key) = Return(TRUE)

\* the drills of the catalog that the machine filter lets through and that
\* mine the category of the recipe
PermittedDrills(recipe_data) ==
    {d \in 1..Len(data.mining_drills) :
        /\ PassesMachineFilter(data.mining_drills[d].key)
        /\ recipe_data.category \in data.mining_drills[d].resource_categories}

\* the position of the recipe in self.recipes
RecipeIndex(recipe_key) == CHOOSE r \in 1..Len(self.recipes) : self.recipes[r].key = recipe_key

\* C29: the recipe made of a resource is filtered by name like a catalog
\* recipe and the drills like crafting machines: a mining activity exists only
\* if '<key>-mining' passes the recipe filter and its drill passes the machine
\* filter; once run() is past the recipe, its activities exist if it passes
\* and a single best permitted drill mines its category, and none exists
\* otherwise; with allowed_recipes set and '<key>-mining' not in it there is
\* no mining activity and the node of '<key>-resource' has no consumer term.
C29_MiningFiltered ==
    RunStarted =>
        \A q \in 1..Len(data.resources) :
            LET recipe_key == get_resource_recipe_key(data.resources[q].key)
                node == get_item_id(get_resource_item_key(data.resources[q].key), 0)
                recipe_data == Lookup(self.recipes, recipe_key)
                mining == ActivitiesOf(recipe_key)
            IN  /\ \A a \in mining :
                      /\ PassesRecipeFilter(recipe_key)
                      /\ PassesMachineFilter(lp.solver_recipes[a].crafting_machine_key)
                      /\ \E d \in PermittedDrills(recipe_data) :
                            data.mining_drills[d].key = lp.solver_recipes[a].crafting_machine_key
                /\ (~PassesRecipeFilter(recipe_key) \/ PermittedDrills(recipe_data) = {}) =>
                      (mining = {} /\ ConsumerTermsAt(node) = {})
                /\ (self.allowed_recipes.set /\ ~InList(recipe_key, self.allowed_recipes.val)) =>
                      (mining = {} /\ ConsumerTermsAt(node) = {})
                /\ ( /\ PassesRecipeFilter(recipe_key)
                     /\ Cardinality(PermittedDrills(recipe_data)) = 1
                     /\ RecipeDone(RecipeIndex(recipe_key)) ) =>
                      (mining # {} /\ ConsumerTermsAt(node) # {})

\* allowed_recipes = ['smelt']: run() went through, ore-resource is supplied,
\* nothing mines it, smelt has its activities
C29_Witness ==
    /\ pc = "done"
    /\ self.allowed_recipes.set
    /\ ~InList("ore-mining", self.allowed_recipes.val)
    /\ HasKey(self.recipes, "ore-mining")
    /\ PermittedDrills(Lookup(self.recipes, "ore-mining")) # {}
    /\ ActivitiesOf("ore-mining") = {}
    /\ lp.solver_input_item_ids = <<"normal__ore-resource">>
    /\ {t.kind : t \in TermSet(Lookup(lp.solver_items, "normal__ore-resource").terms)} = {"input"}

\* the drill is denied: run() went through and nothing mines
C29_WitnessDrill ==
    /\ pc = "done"
    /\ ~self.allowed_recipes.set
    /\ PassesRecipeFilter("ore-mining")
    /\ ~PassesMachineFilter("drill")
    /\ ActivitiesOf("ore-mining") = {}
    /\ ActivitiesOf("smelt") # {}

-----------------------------------------------------------------------------
(* Quality upgrading redistributes the output of an activity.              *)

\* the sign of the coefficient of the term (energy_required is positive)
CoefficientSign(t) == t.sign * DecSign(t.amount) * DecSign(t.speed) * DecSign(t.factor)

\* the quality factor the kernel gives the activity for the tier e
KernelFactor(act, e) ==
    calculate_quality_probability_factor(
        act.recipe_quality, e, self.max_quality_unlocked,
        QualityPercent(self, act.num_qual_modules, act.num_effective_speed_modules)).value

\* the sum of the kernel's factors of the activity over the tiers e..max_quality_unlocked
RECURSIVE KernelRowFrom(_, _)
KernelRowFrom(act, e) ==
    IF e > self.max_quality_unlocked THEN DecInt(0)
    ELSE DecAdd(KernelFactor(act, e), KernelRowFrom(act, e + 1))

\* the activities (by position) of the recipes with a result of that name
ActivitiesProducing(name) ==
    {a \in 1..Len(lp.solver_recipes) : lp.solver_recipes[a].recipe_key \in RecipesProducing(name)}

\* (activity, quality factor, speed factor, energy_required) of the result
\* terms on the node (name, e)
UpgradeTermsAt(name, e) ==
    {<<t.var, DecNorm(t.factor), DecNorm(t.speed), t.energy>> :
        t \in {x \in TermSet(Lookup(lp.solver_items, get_item_id(name, e)).terms) :
                  x.kind = "result" /\ x.sign = 1}}

\* the same of the activities at a recipe tier up to e, from the kernel
UpgradesDue(name, e) ==
    {<<lp.solver_recipes[a].key, DecNorm(KernelFactor(lp.solver_recipes[a], e)),
       DecNorm(lp.solver_recipes[a].speed_factor), RecipeOf(lp.solver_recipes[a]).energy_required>> :
        a \in {b \in ActivitiesProducing(name) : lp.solver_recipes[b].recipe_quality <= e}}

\* for every quality-eligible item and every activity with a result of its
\* name (one result of that name per recipe), the activity has exactly one
\* result term on each node of the item from its recipe tier up and none
\* below, each with its speed_factor and energy_required (and expected_amount,
\* C22) and the kernel's factor for that tier, and those factors add to 1: the
\* coefficients add to expected_amount * speed_factor / energy_required
OutputConserved ==
    Minimized =>
        \A i \in {j \in 1..Len(self.items) : self.items[j].allows_quality} :
            LET name == self.items[i].key
            IN  /\ \A e \in 0..self.max_quality_unlocked :
                      /\ UpgradeTermsAt(name, e) = UpgradesDue(name, e)
                      /\ Cardinality({k \in 1..Len(Lookup(lp.solver_items, get_item_id(name, e)).terms) :
                                        Lookup(lp.solver_items, get_item_id(name, e)).terms[k].kind = "result"})
                            = Cardinality(UpgradesDue(name, e))
                /\ \A a \in ActivitiesProducing(name) :
                      DecEq(KernelRowFrom(lp.solver_recipes[a], lp.solver_recipes[a].recipe_quality),
                            DecInt(1))

\* no coefficient of a quality-eligible result of an activity with
\* speed_factor >= 0 is negative
UpgradesNonNegative ==
    Minimized =>
        \A n \in 1..Len(lp.solver_items) :
            \A t \in ResultTerms(n) :
                (t.kernel /\ DecSign(t.speed) >= 0) => CoefficientSign(t) >= 0

\* C30 as stated: for every activity at recipe tier t and every
\* quality-eligible result, the coefficients on the nodes of the tiers t..max
\* add to expected_amount * speed_factor / energy_required, and with
\* speed_factor >= 0 each of them is >= 0.
C30_AsStated == OutputConserved /\ UpgradesNonNegative

====
